---- MODULE Spec2Model ----
(***************************************************************************)
(* Confirmation-gated mutation engine of mail-forwarding-api.              *)
(*                                                                         *)
(* Requests are processes; every awaited database statement is one atomic  *)
(* step together with the synchronous JavaScript that follows it up to the *)
(* next await.  Tables hold committed rows; a transaction buffers its      *)
(* writes (w) and holds row locks until commit or rollback.  Plain SELECTs *)
(* read committed rows, locking statements wait for rows locked by another *)
(* transaction.  Time is a counter of seconds advanced by Tick.            *)
(*                                                                         *)
(* Secrets are fresh values tagged with their format, and Hash is          *)
(* injective.                                                              *)
(***************************************************************************)
EXTENDS Integers, Sequences, FiniteSets, TLC

VARIABLES
    now,        \* NOW(6) / Date.now(), in seconds
    cfg,        \* configuration: ttl, cooldown (seconds), maxSends
    load,       \* workload of the run: requests the clients send, intents used
    atr,        \* committed rows of api_token_requests
    ec,         \* committed rows of email_confirmations
    alias,      \* committed rows of alias
    apiTokens,  \* rows of api_tokens
    domainActive, \* the alias domain is an active row of domain
    nextId,     \* AUTO_INCREMENT counters of atr and ec
    mail,       \* secrets handed to the mail transport
    proc,       \* per request: program counter and locals
    calls,      \* number of requests started
    confirmCount, \* history: markConfirmedById = true, per table and row id
    mutCount,   \* history: guarded mutations invoked, per table and row id
    hist,       \* history: results of the calls of the sequential scenario
    domainsCache, \* the module variable domainsCache of the confirmation service
    client,     \* redis-client.js: the module variable client (0 is null)
    isConnecting, \* redis-client.js: the module variable isConnecting
    isConnected, \* redis-client.js: the module variable isConnected
    created,    \* number of createClient calls; the clients are 1..created
    outcome,    \* history: how the connect() of each client ended
    caller,     \* per caller of getRedisClient: position, attempt joined, result
    redisUrl,   \* config.redisUrl is set
    redisClient, \* rate-limit.js: the module variable redisClient (0 is null)
    redisInitialized, \* rate-limit.js: the module variable redisInitialized
    store,      \* the store each limiter instance was built with
    phase,      \* position of the startup code of server.js
    counted     \* requests counted, per limiter instance and store

\* the state of the request handlers and of the database
dataVars == <<now, cfg, load, atr, ec, alias, apiTokens, domainActive, nextId,
              mail, proc, calls, confirmCount, mutCount, hist, domainsCache>>

\* the state of lib/redis-client.js
redisVars == <<client, isConnecting, isConnected, created, outcome, caller>>

\* the state of middlewares/rate-limit.js and of the startup in server.js
bootVars == <<redisUrl, redisClient, redisInitialized, store, phase, counted>>

vars == <<dataVars, redisVars, bootVars>>

----------------------------------------------------------------------------
(* Bounds of the model *)

NProcs == 2
MaxTime == 3
MaxCalls == 3
MaxCallsCred == 4
MaxCallsAlias == 4
MaxCallsSeq == 5
MaxRows == 2
Ttl == 2
Cooldown == 1
MaxSends == 2

Procs == 1..NProcs
Ids == 1..MaxRows

(* Program constants *)

DEFAULT_RETRY_MAX == 2

Emails == {"a", "b"}
CredEmail == "a"
Address == "x"

\* the formats of the secrets: "base62" (generateBase62Token), "digits"
\* (generateConfirmationCode, six digits), "hex64" (generateApiToken64)
NoToken == <<"none", 0>>

\* a six-digit code that no issuance has produced
NeverIssued == <<"digits", 0>>

NoRow == [id |-> 0]

\* let domainsCache = { at: 0, data: null }; doneAt is history: the time of
\* the assignment
NoCache == [at |-> 0, data |-> {}, filled |-> FALSE, doneAt |-> 0]

----------------------------------------------------------------------------
(* Pure helpers *)

\* sha256Buffer: an injective digest, distinct from every plaintext
Hash(secret) == <<"sha256", secret>>

MaxIdRow(S) == IF S = {} THEN NoRow ELSE CHOOSE r \in S : \A q \in S : q.id <= r.id

Replace(tbl, rows) == {r \in tbl : \A x \in rows : x.id # r.id} \cup rows

\* the rows a transaction sees: committed rows overlaid with its own writes
View(tbl, p) == Replace(tbl, proc[p].w)

Idle == [pc |-> "idle", op |-> "", email |-> "", tok |-> NoToken, pend |-> NoRow, w |-> {},
         locks |-> {}, attempt |-> 0, ins |-> 0, res |-> "", meta |-> NoRow,
         intent |-> "", marked |-> FALSE, cine |-> "", cid |-> 0]

Set(p, r) == proc' = [proc EXCEPT ![p] = r]

\* the locals of a request that starts now; cid numbers the requests
Req(op) == [Idle EXCEPT !.op = op, !.cid = calls + 1]

\* the generators draw a fresh secret: no two requests draw the same one
generateBase62Token(p) == <<"base62", proc[p].cid>>

generateConfirmationCode(p) == <<"digits", proc[p].cid>>

generateApiToken64(p) == <<"hex64", proc[p].cid>>

\* RE_CONFIRMATION_CODE = /^\d{6}$/
isConfirmationCodeValid(token) == token[1] = "digits"

\* the tokens a client can present: a secret it received by mail, or a
\* well-formed code of its own
PresentedTokens == {m.secret : m \in mail} \cup {NeverIssued}

\* a request is over once its response is sent; its slot then takes the next one
Free(p) == proc[p].pc \in {"idle", "done"}

\* a new request takes the lowest free slot (the slots are interchangeable)
CanStart(p) ==
    /\ Free(p)
    /\ \A q \in Procs : q < p => ~Free(q)
    /\ calls < load.requests

----------------------------------------------------------------------------
(* Repository helpers shared by api_token_requests and email_confirmations *)

\* WHERE status = 'pending' AND expires_at > NOW(6)
ActivePending(r) == r.status = "pending" /\ r.expires_at > now

\* the (email, pending) uniqueness constraint of a pending-confirmation table
PendingEmailUnique(rows, email) ==
    \A r \in rows : ~(r.email = email /\ r.status = "pending")

\* getPendingByTokenHash: ... ORDER BY id DESC LIMIT 1
GetPendingByTokenHash(tbl, h) ==
    MaxIdRow({r \in tbl : r.token_hash = h /\ ActivePending(r)})

\* faulty variant of the WHERE clause of markConfirmedById: the expiry is not
\* tested
MarkConfirmedIgnoringExpiry(tbl, id) == {r \in tbl : r.id = id /\ r.status = "pending"}

\* markConfirmedById: the rows its WHERE clause matches
MarkConfirmedMatches(tbl, id) == {r \in tbl : r.id = id /\ ActivePending(r)}

\* faulty variant: the confirmation is not stored
MarkConfirmedNotStored(tbl, id) == tbl

MarkConfirmed(tbl, id) ==
    Replace(tbl, {[r EXCEPT !.status = "confirmed"] : r \in MarkConfirmedMatches(tbl, id)})

\* a row of tbl with this id is locked by a transaction other than p
LockedByOther(p, id) == \E q \in Procs \ {p} : id \in proc[q].locks

\* faulty variant: the statements take no row lock and never wait
AtrBusyNever(p, email) == FALSE

\* a locking statement of p on the pending rows of email must wait
AtrBusy(p, email) ==
    \E q \in Procs \ {p} : \E r \in View(atr, q) :
        r.id \in proc[q].locks /\ r.email = email

buildPendingMeta(pending) ==
    [id |-> pending.id,
     expires_at |-> pending.expires_at,
     last_sent_at |-> pending.last_sent_at,
     send_count |-> pending.send_count,
     next_allowed_send_at |->
         IF cfg.cooldown > 0 THEN pending.last_sent_at + cfg.cooldown ELSE -1,
     remaining_attempts |->
         IF cfg.maxSends - pending.send_count > 0
         THEN cfg.maxSends - pending.send_count ELSE 0]

----------------------------------------------------------------------------
(* POST /api/credentials/create: sendApiTokenRequestEmail and              *)
(* upsertPendingByEmailTx under withTxRetry                                *)

UpsertStart(p) ==
    /\ CanStart(p)
    /\ calls' = calls + 1
    /\ Set(p, [Req("createCredentials") EXCEPT !.pc = "u_sweep", !.email = CredEmail])
    /\ UNCHANGED <<now, cfg, load, atr, ec, alias, apiTokens, domainActive,
                   nextId, mail, confirmCount, mutCount, hist,
                   domainsCache,
                   redisVars, bootVars>>

\* UPDATE ... SET status = 'expired' WHERE email = ? AND status = 'pending'
\*   AND expires_at <= NOW(6)
SweepRows(rows, email) ==
    {r \in rows : r.email = email /\ r.status = "pending" /\ r.expires_at <= now}

UpsertSweep(p) ==
    /\ proc[p].pc = "u_sweep"
    /\ ~AtrBusy(p, proc[p].email)
    /\ LET stale == SweepRows(View(atr, p), proc[p].email)
       IN Set(p, [proc[p] EXCEPT
                !.pc = "u_select",
                !.w = Replace(@, {[r EXCEPT !.status = "expired"] : r \in stale}),
                !.locks = @ \cup {r.id : r \in stale}])
    /\ UNCHANGED <<now, cfg, load, atr, ec, alias, apiTokens, domainActive,
                   nextId, mail, calls, confirmCount, mutCount, hist,
                   domainsCache,
                   redisVars, bootVars>>

\* selectPendingForUpdate: WHERE email = ? AND status = 'pending'
\*   ORDER BY id DESC LIMIT 1 FOR UPDATE
selectPendingForUpdate(p, email) ==
    MaxIdRow({r \in View(atr, p) : r.email = email /\ r.status = "pending"})

\* faulty variants of the throttle decision: no limit on the sends; a limit
\* that is off by one
UpsertDecisionUnlimited(pending) ==
    IF cfg.cooldown > 0 /\ pending.last_sent_at + cfg.cooldown > now
    THEN "cooldown" ELSE "rotate"

UpsertDecisionOffByOne(pending) ==
    IF cfg.cooldown > 0 /\ pending.last_sent_at + cfg.cooldown > now
    THEN "cooldown"
    ELSE IF pending.send_count > cfg.maxSends THEN "rate_limited" ELSE "rotate"

\* the throttle decision on an unexpired pending row (lines 264-285)
UpsertDecision(pending) ==
    IF cfg.cooldown > 0 /\ pending.last_sent_at + cfg.cooldown > now
    THEN "cooldown"
    ELSE IF pending.send_count >= cfg.maxSends
         THEN "rate_limited"
         ELSE "rotate"

\* faulty variant: a throttled call that counts itself as a send
ThrottleReturnCounting(p, pending, action) ==
    [proc[p] EXCEPT !.pc = "u_commit", !.pend = pending,
                    !.locks = @ \cup {pending.id},
                    !.res = action,
                    !.w = Replace(@, {[pending EXCEPT !.send_count = @ + 1]}),
                    !.meta = buildPendingMeta(pending)]

\* return { action: "cooldown" | "rate_limited", pending: buildPendingMeta(pending) }
\* (lines 266-285): the transaction ends without a write to the row
ThrottleReturn(p, pending, action) ==
    [proc[p] EXCEPT !.pc = "u_commit", !.pend = pending,
                    !.locks = @ \cup {pending.id},
                    !.res = action,
                    !.meta = buildPendingMeta(pending)]

UpsertSelect(p) ==
    /\ proc[p].pc = "u_select"
    /\ ~AtrBusy(p, proc[p].email)
    /\ LET pending == selectPendingForUpdate(p, proc[p].email)
           lk == IF pending.id = 0 THEN proc[p].locks
                 ELSE proc[p].locks \cup {pending.id}
       IN IF pending.id = 0
          THEN Set(p, [proc[p] EXCEPT !.pc = "u_insert", !.ins = 0])
          ELSE IF pending.expires_at <= now
          THEN Set(p, [proc[p] EXCEPT !.pc = "u_expire", !.pend = pending,
                                      !.locks = lk])
          ELSE IF UpsertDecision(pending) = "rotate"
          THEN Set(p, [proc[p] EXCEPT !.pc = "u_rotate", !.pend = pending,
                                      !.locks = lk])
          ELSE Set(p, ThrottleReturn(p, pending, UpsertDecision(pending)))
    /\ UNCHANGED <<now, cfg, load, atr, ec, alias, apiTokens, domainActive,
                   nextId, mail, calls, confirmCount, mutCount, hist,
                   domainsCache,
                   redisVars, bootVars>>

\* UPDATE ... SET status = 'expired' WHERE id = ? AND status = 'pending'
UpsertExpire(p) ==
    /\ proc[p].pc = "u_expire"
    /\ LET hit == {r \in View(atr, p) :
                     r.id = proc[p].pend.id /\ r.status = "pending"}
       IN Set(p, [proc[p] EXCEPT
                !.pc = "u_insert", !.ins = 0, !.pend = NoRow,
                !.w = Replace(@, {[r EXCEPT !.status = "expired"] : r \in hit})])
    /\ UNCHANGED <<now, cfg, load, atr, ec, alias, apiTokens, domainActive,
                   nextId, mail, calls, confirmCount, mutCount, hist,
                   domainsCache,
                   redisVars, bootVars>>

\* faulty variant: the resend leaves the digest of the earlier secret in place
RotateRowKeepingHash(r, secret) ==
    [r EXCEPT !.expires_at = now + cfg.ttl,
              !.send_count = @ + 1,
              !.last_sent_at = now]

\* UPDATE ... SET token_hash = ?, expires_at = NOW + ttl,
\*   send_count = send_count + 1, last_sent_at = NOW WHERE id = ?
RotateRow(r, secret) ==
    [r EXCEPT !.token_hash = Hash(secret),
              !.expires_at = now + cfg.ttl,
              !.send_count = @ + 1,
              !.last_sent_at = now]

UpsertRotate(p) ==
    /\ proc[p].pc = "u_rotate"
    /\ LET hit == {r \in View(atr, p) : r.id = proc[p].pend.id}
           rot == {RotateRow(r, generateBase62Token(p)) : r \in hit}
           refreshed == IF rot = {} THEN proc[p].pend ELSE MaxIdRow(rot)
       IN Set(p, [proc[p] EXCEPT
                !.pc = "u_commit", !.tok = generateBase62Token(p), !.res = "resent",
                !.w = Replace(@, rot),
                !.meta = buildPendingMeta(refreshed)])
    /\ UNCHANGED <<now, cfg, load, atr, ec, alias, apiTokens, domainActive,
                   nextId, mail, calls, confirmCount, mutCount, hist,
                   domainsCache,
                   redisVars, bootVars>>

\* faulty variant: the row stores the secret itself
NewAtrRowPlain(id, email, secret) ==
    [id |-> id, email |-> email, token_hash |-> secret, status |-> "pending",
     expires_at |-> now + cfg.ttl, send_count |-> 1, last_sent_at |-> now]

\* faulty variant: the first send is not counted
NewAtrRowUncounted(id, email, secret) ==
    [id |-> id, email |-> email, token_hash |-> Hash(secret), status |-> "pending",
     expires_at |-> now + cfg.ttl, send_count |-> 0, last_sent_at |-> now]

\* INSERT ... VALUES (?, ?, 'pending', ..., 1, NOW(6), 0)
NewAtrRow(id, email, secret) ==
    [id |-> id, email |-> email, token_hash |-> Hash(secret), status |-> "pending",
     expires_at |-> now + cfg.ttl, send_count |-> 1, last_sent_at |-> now]

UpsertInsert(p) ==
    /\ proc[p].pc = "u_insert"
    /\ ~AtrBusy(p, proc[p].email)
    /\ IF PendingEmailUnique(View(atr, p), proc[p].email)
       THEN /\ nextId.atr <= MaxRows
            /\ LET row == NewAtrRow(nextId.atr, proc[p].email, generateBase62Token(p))
               IN Set(p, [proc[p] EXCEPT
                        !.pc = "u_commit", !.tok = generateBase62Token(p), !.res = "created",
                        !.w = @ \cup {row}, !.locks = @ \cup {row.id},
                        !.meta = buildPendingMeta(row)])
            /\ nextId' = [nextId EXCEPT !.atr = @ + 1]
       ELSE /\ Set(p, [proc[p] EXCEPT !.pc = "u_dup"])
            /\ UNCHANGED nextId
    /\ UNCHANGED <<now, cfg, load, atr, ec, alias, apiTokens, domainActive,
                   mail, calls, confirmCount, mutCount, hist,
                   domainsCache,
                   redisVars, bootVars>>

\* faulty variant: the writes of the failed attempt stay in the table
rollbackKeepingWrites(tbl, writes) == Replace(tbl, writes)

\* conn.rollback() in the catch of withTransaction: the table keeps its
\* committed rows and the writes of the attempt are dropped
rollback(tbl, writes) == tbl

\* catch (ER_DUP_ENTRY) of the insert loop (lines 341-353)
UpsertDupEntry(p) ==
    /\ proc[p].pc = "u_dup"
    /\ ~AtrBusy(p, proc[p].email)
    /\ LET existing == selectPendingForUpdate(p, proc[p].email)
       IN IF existing.id # 0
          THEN /\ Set(p, [proc[p] EXCEPT !.pc = "u_commit", !.res = "cooldown",
                                         !.pend = existing,
                                         !.locks = @ \cup {existing.id},
                                         !.meta = buildPendingMeta(existing)])
               /\ UNCHANGED atr
          ELSE IF proc[p].ins < 2
          THEN /\ Set(p, [proc[p] EXCEPT !.pc = "u_insert", !.ins = @ + 1])
               /\ UNCHANGED atr
          ELSE \* throw err: withTransaction rolls back, withTxRetry rethrows
               /\ Set(p, [proc[p] EXCEPT !.pc = "done", !.res = "ER_DUP_ENTRY",
                                         !.w = {}, !.locks = {}])
               /\ atr' = rollback(atr, proc[p].w)
    /\ UNCHANGED <<now, cfg, load, ec, alias, apiTokens, domainActive, nextId,
                   mail, calls, confirmCount, mutCount, hist,
                   domainsCache,
                   redisVars, bootVars>>

\* conn.commit() of withTransaction, then the return to sendApiTokenRequestEmail
UpsertCommit(p) ==
    /\ proc[p].pc = "u_commit"
    /\ atr' = Replace(atr, proc[p].w)
    /\ Set(p, [proc[p] EXCEPT
             !.pc = IF proc[p].res \in {"cooldown", "rate_limited"}
                    THEN "done" ELSE "u_mail",
             !.w = {}, !.locks = {}])
    /\ UNCHANGED <<now, cfg, load, ec, alias, apiTokens, domainActive, nextId,
                   mail, calls, confirmCount, mutCount, hist,
                   domainsCache,
                   redisVars, bootVars>>

\* faulty variant: the next attempt starts on the writes of the failed one
withTxRetryKeepingWrites(p) ==
    IF proc[p].attempt >= DEFAULT_RETRY_MAX
    THEN [proc[p] EXCEPT !.pc = "done", !.res = "tx_busy", !.w = {}, !.locks = {},
                         !.pend = NoRow]
    ELSE [proc[p] EXCEPT !.pc = "u_sweep", !.attempt = @ + 1, !.pend = NoRow,
                         !.ins = 0]

\* a lock wait ends in ER_LOCK_WAIT_TIMEOUT / ER_LOCK_DEADLOCK: withTransaction
\* rolls back and withTxRetry retries or gives up with tx_busy
withTxRetryOnLockError(p) ==
    IF proc[p].attempt >= DEFAULT_RETRY_MAX
    THEN [proc[p] EXCEPT !.pc = "done", !.res = "tx_busy", !.w = {}, !.locks = {},
                         !.pend = NoRow]
    ELSE [proc[p] EXCEPT !.pc = "u_sweep", !.attempt = @ + 1, !.w = {},
                         !.locks = {}, !.pend = NoRow, !.ins = 0]

UpsertLockError(p) ==
    /\ proc[p].pc \in {"u_sweep", "u_select", "u_insert", "u_dup"}
    /\ AtrBusy(p, proc[p].email)
    /\ Set(p, withTxRetryOnLockError(p))
    /\ atr' = rollback(atr, proc[p].w)
    /\ UNCHANGED <<now, cfg, load, ec, alias, apiTokens, domainActive,
                   nextId, mail, calls, confirmCount, mutCount, hist,
                   domainsCache,
                   redisVars, bootVars>>

\* transporter.sendMail of sendApiTokenRequestEmail
SendApiTokenMail(p) ==
    /\ proc[p].pc = "u_mail"
    /\ mail' = mail \cup {[kind |-> "cred", secret |-> proc[p].tok]}
    /\ Set(p, [proc[p] EXCEPT !.pc = "done"])
    /\ UNCHANGED <<now, cfg, load, atr, ec, alias, apiTokens, domainActive,
                   nextId, calls, confirmCount, mutCount, hist,
                   domainsCache,
                   redisVars, bootVars>>

\* the actions upsertPendingByEmailTx returns; any other result was thrown
UpsertActions == {"created", "resent", "cooldown", "rate_limited"}

\* the response of createCredentials to a finished request: 200 after
\* sendApiTokenRequestEmail returned, and the catch block for whatever it threw
createCredentialsResponse(p) ==
    IF proc[p].res \in UpsertActions
    THEN [status |-> 200, error |-> "",
          sent |-> proc[p].res \in {"created", "resent"}]
    ELSE [status |-> 500, error |-> "internal_error", sent |-> FALSE]

----------------------------------------------------------------------------
(* GET /api/credentials/confirm: confirmCredentials                        *)

Bump(f, kind, id) == [f EXCEPT ![kind][id] = @ + 1]

ConfirmCredStart(p) ==
    /\ CanStart(p)
    /\ calls' = calls + 1
    /\ \E t \in PresentedTokens :
          IF isConfirmationCodeValid(t)
          THEN Set(p, [Req("confirmCredentials") EXCEPT !.pc = "c_get", !.tok = t])
          ELSE Set(p, [Req("confirmCredentials") EXCEPT !.pc = "done", !.tok = t,
                                                        !.res = "invalid_token"])
    /\ UNCHANGED <<now, cfg, load, atr, ec, alias, apiTokens, domainActive,
                   nextId, mail, confirmCount, mutCount, hist,
                   domainsCache,
                   redisVars, bootVars>>

\* apiTokenRequestsRepository.getPendingByTokenHash(sha256Buffer(token))
CredGetPending(p) ==
    /\ proc[p].pc = "c_get"
    /\ LET pending == GetPendingByTokenHash(atr, Hash(proc[p].tok))
       IN IF pending.id = 0
          THEN Set(p, [proc[p] EXCEPT !.pc = "done", !.res = "invalid_or_expired"])
          ELSE Set(p, [proc[p] EXCEPT !.pc = "c_mark", !.pend = pending])
    /\ UNCHANGED <<now, cfg, load, atr, ec, alias, apiTokens, domainActive,
                   nextId, mail, calls, confirmCount, mutCount, hist,
                   domainsCache,
                   redisVars, bootVars>>

\* faulty variant: the result of markConfirmedById is not tested
AfterMarkConfirmedUnchecked(p, okConfirm, nextPc) ==
    [proc[p] EXCEPT !.pc = nextPc, !.marked = okConfirm]

\* faulty variant: a failed markConfirmedById is answered with an error of its
\* own
AfterMarkConfirmedTelling(p, okConfirm, nextPc) ==
    IF okConfirm
    THEN [proc[p] EXCEPT !.pc = nextPc, !.marked = TRUE]
    ELSE [proc[p] EXCEPT !.pc = "done", !.res = "expired"]

\* the request goes on to the guarded mutation iff okConfirm (affectedRows = 1)
AfterMarkConfirmed(p, okConfirm, nextPc) ==
    IF okConfirm
    THEN [proc[p] EXCEPT !.pc = nextPc, !.marked = TRUE]
    ELSE [proc[p] EXCEPT !.pc = "done", !.res = "invalid_or_expired"]

\* apiTokenRequestsRepository.markConfirmedById(pending.id)
CredMarkConfirmed(p) ==
    /\ proc[p].pc = "c_mark"
    /\ ~LockedByOther(p, proc[p].pend.id)
    /\ LET id == proc[p].pend.id
           okConfirm == Cardinality(MarkConfirmedMatches(atr, id)) = 1
       IN /\ atr' = MarkConfirmed(atr, id)
          /\ Set(p, AfterMarkConfirmed(p, okConfirm, "c_create"))
          /\ confirmCount' = IF okConfirm THEN Bump(confirmCount, "cred", id)
                             ELSE confirmCount
    /\ UNCHANGED <<now, cfg, load, ec, alias, apiTokens, domainActive, nextId,
                   mail, calls, mutCount, hist,
                   domainsCache,
                   redisVars, bootVars>>

\* apiTokensRepository.createToken, then the 200 response; a failing INSERT is
\* caught by the handler: 500 internal_error
CredCreateToken(p) ==
    /\ proc[p].pc = "c_create"
    /\ mutCount' = Bump(mutCount, "cred", proc[p].pend.id)
    /\ \/ /\ apiTokens' = apiTokens \cup
                 {[owner_email |-> proc[p].pend.email,
                   token_hash |-> Hash(generateApiToken64(p))]}
          /\ Set(p, [proc[p] EXCEPT !.pc = "done", !.res = "ok"])
       \/ /\ UNCHANGED apiTokens
          /\ Set(p, [proc[p] EXCEPT !.pc = "done", !.res = "internal_error"])
    /\ UNCHANGED <<now, cfg, load, atr, ec, alias, domainActive, nextId,
                   mail, calls, confirmCount, hist,
                   domainsCache,
                   redisVars, bootVars>>

\* the response of confirmCredentials: its status code and the fields of its body
confirmCredentialsResponse(p) ==
    LET r == proc[p].res
        succeeded == r = "ok"
    IN [status |-> IF succeeded THEN 200
                   ELSE IF r = "internal_error" THEN 500 ELSE 400,
        ok |-> IF succeeded THEN "true" ELSE "",
        error |-> IF succeeded THEN "" ELSE r,
        action |-> IF succeeded THEN "api_credentials_confirm" ELSE "",
        confirmed |-> IF succeeded THEN "true" ELSE "",
        email |-> IF succeeded THEN proc[p].pend.email ELSE "",
        token |-> IF succeeded THEN generateApiToken64(p) ELSE NoToken,
        token_type |-> IF succeeded THEN "api_key" ELSE ""]

----------------------------------------------------------------------------
(* alias table: aliasRepository                                            *)

\* getByAddress / existsByAddress / the SELECT of createIfNotExists
AliasRows(address) == {a \in alias : a.address = address}

\* the unique key of alias.address
AliasAddressUnique(address) == AliasRows(address) = {}

\* createIfNotExists, first statement: SELECT ... WHERE a.address = ? FOR UPDATE
createIfNotExistsSelect(address) ==
    IF Cardinality(AliasRows(address)) = 1 THEN "alreadyExists" ELSE "insert"

\* createIfNotExists, second statement: INSERT INTO alias; a duplicate key is
\* thrown by withTransaction after the rollback
createIfNotExistsInsert(address, goto) ==
    IF AliasAddressUnique(address)
    THEN [cine |-> "created", alias |-> alias \cup {[address |-> address, goto |-> goto]}]
    ELSE [cine |-> "threw", alias |-> alias]

\* deleteByAddress: DELETE FROM alias WHERE address = ? LIMIT 1
deleteByAddress(address) == alias \ AliasRows(address)

----------------------------------------------------------------------------
(* GET /forward/subscribe, GET /forward/unsubscribe: sendEmailConfirmation *)

\* subscribeAction up to the call of sendEmailConfirmation
SubscribeStart(p) ==
    /\ CanStart(p)
    /\ calls' = calls + 1
    /\ \E to \in Emails, intent \in load.intents :
          IF intent = "subscribe" /\ ~domainActive
          THEN Set(p, [Req("subscribeAction") EXCEPT !.pc = "done", !.res = "invalid_domain"])
          ELSE IF AliasRows(Address) # {}
          THEN Set(p, [Req("subscribeAction") EXCEPT !.pc = "done", !.res = "alias_taken"])
          ELSE Set(p, [Req("subscribeAction") EXCEPT !.pc = "s_get", !.email = to,
                                                     !.intent = intent])
    /\ UNCHANGED <<now, cfg, load, atr, ec, alias, apiTokens, domainActive,
                   nextId, mail, confirmCount, mutCount, hist,
                   domainsCache,
                   redisVars, bootVars>>

\* unsubscribeAction up to the call of sendEmailConfirmation
UnsubscribeStart(p) ==
    /\ CanStart(p)
    /\ calls' = calls + 1
    /\ IF AliasRows(Address) = {}
       THEN Set(p, [Req("unsubscribeAction") EXCEPT !.pc = "done", !.res = "alias_not_found"])
       ELSE \E a \in AliasRows(Address) :
              Set(p, [Req("unsubscribeAction") EXCEPT !.pc = "s_get", !.email = a.goto,
                                  !.intent = "unsubscribe"])
    /\ UNCHANGED <<now, cfg, load, atr, ec, alias, apiTokens, domainActive,
                   nextId, mail, confirmCount, mutCount, hist,
                   domainsCache,
                   redisVars, bootVars>>

\* emailConfirmationsRepository.getActivePendingByEmail
getActivePendingByEmail(email) ==
    MaxIdRow({r \in ec : r.email = email /\ ActivePending(r)})

\* lines 326-336: the cooldown test on the row read without a lock
SendGetActivePending(p) ==
    /\ proc[p].pc = "s_get"
    /\ LET pending == getActivePendingByEmail(proc[p].email)
       IN IF pending.id # 0 /\ now - pending.last_sent_at < cfg.cooldown
          THEN Set(p, [proc[p] EXCEPT !.pc = "done", !.res = "cooldown",
                                      !.pend = pending])
          ELSE Set(p, [proc[p] EXCEPT
                     !.pc = IF pending.id # 0 THEN "s_rotate" ELSE "s_sweep",
                     !.pend = pending, !.tok = generateConfirmationCode(p)])
    /\ UNCHANGED <<now, cfg, load, atr, ec, alias, apiTokens, domainActive,
                   nextId, mail, calls, confirmCount, mutCount, hist,
                   domainsCache,
                   redisVars, bootVars>>

\* faulty variant: the UPDATE does not test the status and the expiry
rotateTokenForPendingAnyStatus(email, secret) ==
    LET hit == MaxIdRow({r \in ec : r.email = email})
    IN IF hit.id = 0 THEN ec ELSE Replace(ec, {RotateRow(hit, secret)})

\* emailConfirmationsRepository.rotateTokenForPending: UPDATE ... WHERE email = ?
\*   AND status = 'pending' AND expires_at > NOW(6) ORDER BY id DESC LIMIT 1
rotateTokenForPending(email, secret) ==
    LET hit == MaxIdRow({r \in ec : r.email = email /\ ActivePending(r)})
    IN IF hit.id = 0 THEN ec ELSE Replace(ec, {RotateRow(hit, secret)})

SendRotate(p) ==
    /\ proc[p].pc = "s_rotate"
    /\ ec' = rotateTokenForPending(proc[p].email, proc[p].tok)
    /\ Set(p, [proc[p] EXCEPT !.pc = "s_mail"])
    /\ UNCHANGED <<now, cfg, load, atr, alias, apiTokens, domainActive, nextId,
                   mail, calls, confirmCount, mutCount, hist,
                   domainsCache,
                   redisVars, bootVars>>

\* emailConfirmationsRepository.createPending, first statement (expire sweep)
SendCreateSweep(p) ==
    /\ proc[p].pc = "s_sweep"
    /\ LET stale == SweepRows(ec, proc[p].email)
       IN Set(p, [proc[p] EXCEPT
                !.pc = "s_insert",
                !.w = {[r EXCEPT !.status = "expired"] : r \in stale}])
    /\ UNCHANGED <<now, cfg, load, atr, ec, alias, apiTokens, domainActive, nextId,
                   mail, calls, confirmCount, mutCount, hist,
                   domainsCache,
                   redisVars, bootVars>>

NewEcRow(id, email, secret, intent) ==
    [id |-> id, email |-> email, token_hash |-> Hash(secret), status |-> "pending",
     expires_at |-> now + cfg.ttl, send_count |-> 1, last_sent_at |-> now,
     intent |-> intent, alias_name |-> Address]

\* emailConfirmationsRepository.createPending, INSERT and commit; a duplicate
\* key rolls the transaction back and reaches the controller's catch
SendCreateInsert(p) ==
    /\ proc[p].pc = "s_insert"
    /\ IF PendingEmailUnique(View(ec, p), proc[p].email)
       THEN /\ nextId.ec <= MaxRows
            /\ ec' = Replace(ec, proc[p].w) \cup
                       {NewEcRow(nextId.ec, proc[p].email, proc[p].tok, proc[p].intent)}
            /\ nextId' = [nextId EXCEPT !.ec = @ + 1]
            /\ Set(p, [proc[p] EXCEPT !.pc = "s_mail", !.w = {}])
       ELSE /\ Set(p, [proc[p] EXCEPT !.pc = "done", !.res = "internal_error",
                                      !.w = {}])
            /\ UNCHANGED <<ec, nextId>>
    /\ UNCHANGED <<now, cfg, load, atr, alias, apiTokens, domainActive,
                   mail, calls, confirmCount, mutCount, hist,
                   domainsCache,
                   redisVars, bootVars>>

\* transporter.sendMail of sendEmailConfirmation
SendConfirmationMail(p) ==
    /\ proc[p].pc = "s_mail"
    /\ mail' = mail \cup {[kind |-> "alias", secret |-> proc[p].tok]}
    /\ Set(p, [proc[p] EXCEPT !.pc = "done", !.res = "sent"])
    /\ UNCHANGED <<now, cfg, load, atr, ec, alias, apiTokens, domainActive,
                   nextId, calls, confirmCount, mutCount, hist,
                   domainsCache,
                   redisVars, bootVars>>

----------------------------------------------------------------------------
(* GET /forward/confirm: confirmAction                                     *)

ConfirmActionStart(p) ==
    /\ CanStart(p)
    /\ calls' = calls + 1
    /\ \E t \in PresentedTokens :
          IF isConfirmationCodeValid(t)
          THEN Set(p, [Req("confirmAction") EXCEPT !.pc = "a_get", !.tok = t])
          ELSE Set(p, [Req("confirmAction") EXCEPT !.pc = "done", !.tok = t,
                                                   !.res = "invalid_token"])
    /\ UNCHANGED <<now, cfg, load, atr, ec, alias, apiTokens, domainActive,
                   nextId, mail, confirmCount, mutCount, hist,
                   domainsCache,
                   redisVars, bootVars>>

\* the HTTP status confirmAction sends with an error
ConfirmActionStatus(error) ==
    CASE error = "invalid_or_expired" -> 400
      [] error = "alias_not_found" -> 404
      [] error = "alias_owner_changed" -> 409
      [] error = "invalid_token" -> 400
      [] error = "invalid_domain" -> 400
      [] error = "internal_error" -> 500
      [] OTHER -> 200

\* res.json renders a boolean field as true or false; "" stands for a field the
\* body does not carry
JsonBool(b) == IF b THEN "true" ELSE "false"

\* the response of confirmAction: its status code and the fields of its body
confirmActionResponse(p) ==
    LET r == proc[p].res
        failed == ConfirmActionStatus(r) # 200
        unsub == r \in {"removed", "not_removed"}
        sub == r \in {"already_exists", "created", "not_created"}
    IN [status |-> ConfirmActionStatus(r),
        ok |-> JsonBool(~failed),
        error |-> IF failed THEN r ELSE "",
        confirmed |-> IF failed THEN "" ELSE "true",
        intent |-> IF failed THEN "" ELSE proc[p].intent,
        removed |-> IF unsub THEN JsonBool(r = "removed") ELSE "",
        created |-> IF sub THEN JsonBool(r = "created") ELSE "",
        reason |-> IF r = "already_exists" THEN r ELSE "",
        address |-> IF r \in {"alias_not_found", "alias_owner_changed"} \/ ~failed
                    THEN Address ELSE "",
        goto |-> IF sub THEN proc[p].email ELSE "",
        domain |-> IF r = "invalid_domain" THEN "domain" ELSE ""]

\* emailConfirmationsRepository.getPendingByTokenHash(sha256Buffer(token))
ActGetPending(p) ==
    /\ proc[p].pc = "a_get"
    /\ LET pending == GetPendingByTokenHash(ec, Hash(proc[p].tok))
       IN IF pending.id = 0
          THEN Set(p, [proc[p] EXCEPT !.pc = "done", !.res = "invalid_or_expired"])
          ELSE Set(p, [proc[p] EXCEPT !.pc = "a_mark", !.pend = pending,
                                      !.email = pending.email,
                                      !.intent = pending.intent])
    /\ UNCHANGED <<now, cfg, load, atr, ec, alias, apiTokens, domainActive,
                   nextId, mail, calls, confirmCount, mutCount, hist,
                   domainsCache,
                   redisVars, bootVars>>

\* the branch of confirmAction taken after the confirmation (lines 63, 95)
ActionBranch(intent) ==
    IF intent = "unsubscribe" THEN "a_urow"
    ELSE IF intent = "subscribe_address" THEN "a_exist" ELSE "a_domain"

\* emailConfirmationsRepository.markConfirmedById(pending.id)
ActMarkConfirmed(p) ==
    /\ proc[p].pc = "a_mark"
    /\ LET id == proc[p].pend.id
           confirmed == Cardinality(MarkConfirmedMatches(ec, id)) = 1
       IN /\ ec' = MarkConfirmed(ec, id)
          /\ Set(p, AfterMarkConfirmed(p, confirmed, ActionBranch(proc[p].intent)))
          /\ confirmCount' = IF confirmed THEN Bump(confirmCount, "alias", id)
                             ELSE confirmCount
    /\ UNCHANGED <<now, cfg, load, atr, alias, apiTokens, domainActive, nextId,
                   mail, calls, mutCount, hist,
                   domainsCache,
                   redisVars, bootVars>>

\* faulty variant: the owner of the alias is not compared
UnsubscribeCheckNoOwner(address, toEmail) ==
    IF AliasRows(address) = {} THEN "alias_not_found" ELSE "delete"

\* unsubscribe branch: aliasRepository.getByAddress and the owner test
UnsubscribeCheck(address, toEmail) ==
    IF AliasRows(address) = {} THEN "alias_not_found"
    ELSE IF \E a \in AliasRows(address) : a.goto # "" /\ a.goto # toEmail
         THEN "alias_owner_changed"
         ELSE "delete"

ActUnsubGetRow(p) ==
    /\ proc[p].pc = "a_urow"
    /\ LET c == UnsubscribeCheck(Address, proc[p].email)
       IN IF c = "delete"
          THEN Set(p, [proc[p] EXCEPT !.pc = "a_delete"])
          ELSE Set(p, [proc[p] EXCEPT !.pc = "done", !.res = c])
    /\ UNCHANGED <<now, cfg, load, atr, ec, alias, apiTokens, domainActive,
                   nextId, mail, calls, confirmCount, mutCount, hist,
                   domainsCache,
                   redisVars, bootVars>>

\* unsubscribe branch: aliasRepository.deleteByAddress, then the 200 response;
\* a failing statement reaches the catch: 500 internal_error
ActDelete(p) ==
    /\ proc[p].pc = "a_delete"
    /\ mutCount' = Bump(mutCount, "alias", proc[p].pend.id)
    /\ \/ /\ alias' = deleteByAddress(Address)
          /\ Set(p, [proc[p] EXCEPT
                   !.pc = "done",
                   !.res = IF AliasRows(Address) # {} THEN "removed" ELSE "not_removed"])
       \/ /\ UNCHANGED alias
          /\ Set(p, [proc[p] EXCEPT !.pc = "done", !.res = "internal_error"])
    /\ UNCHANGED <<now, cfg, load, atr, ec, apiTokens, domainActive, nextId,
                   mail, calls, confirmCount, hist,
                   domainsCache,
                   redisVars, bootVars>>

\* subscribe branch: domainRepository.getActiveByName
ActDomain(p) ==
    /\ proc[p].pc = "a_domain"
    /\ IF domainActive
       THEN Set(p, [proc[p] EXCEPT !.pc = "a_exist"])
       ELSE Set(p, [proc[p] EXCEPT !.pc = "done", !.res = "invalid_domain"])
    /\ UNCHANGED <<now, cfg, load, atr, ec, alias, apiTokens, domainActive,
                   nextId, mail, calls, confirmCount, mutCount, hist,
                   domainsCache,
                   redisVars, bootVars>>

\* subscribe branch: aliasRepository.getByAddress (lines 106-117)
ActExisting(p) ==
    /\ proc[p].pc = "a_exist"
    /\ IF AliasRows(Address) # {}
       THEN Set(p, [proc[p] EXCEPT !.pc = "done", !.res = "already_exists"])
       ELSE Set(p, [proc[p] EXCEPT !.pc = "a_cselect"])
    /\ UNCHANGED <<now, cfg, load, atr, ec, alias, apiTokens, domainActive,
                   nextId, mail, calls, confirmCount, mutCount, hist,
                   domainsCache,
                   redisVars, bootVars>>

\* subscribe branch: createIfNotExists, the SELECT ... FOR UPDATE
ActCreateSelect(p) ==
    /\ proc[p].pc = "a_cselect"
    /\ mutCount' = Bump(mutCount, "alias", proc[p].pend.id)
    /\ IF createIfNotExistsSelect(Address) = "alreadyExists"
       THEN Set(p, [proc[p] EXCEPT !.pc = "done", !.res = "not_created",
                                   !.cine = "alreadyExists"])
       ELSE Set(p, [proc[p] EXCEPT !.pc = "a_cinsert"])
    /\ UNCHANGED <<now, cfg, load, atr, ec, alias, apiTokens, domainActive,
                   nextId, mail, calls, confirmCount, hist,
                   domainsCache,
                   redisVars, bootVars>>

\* subscribe branch: createIfNotExists, the INSERT and commit, then the response
ActCreateInsert(p) ==
    /\ proc[p].pc = "a_cinsert"
    /\ LET out == createIfNotExistsInsert(Address, proc[p].email)
       IN /\ alias' = out.alias
          /\ Set(p, [proc[p] EXCEPT
                   !.pc = "done", !.cine = out.cine,
                   !.res = IF out.cine = "created" THEN "created"
                           ELSE "internal_error"])
    /\ UNCHANGED <<now, cfg, load, atr, ec, apiTokens, domainActive, nextId,
                   mail, calls, confirmCount, mutCount, hist,
                   domainsCache,
                   redisVars, bootVars>>

----------------------------------------------------------------------------
(* POST /api/alias/create, POST /api/alias/delete (API key of the owner)    *)

HasApiKey(owner) == \E t \in apiTokens : t.owner_email = owner

\* createAlias up to the call of createIfNotExists
ApiCreateStart(p) ==
    /\ CanStart(p)
    /\ calls' = calls + 1
    /\ \E owner \in Emails :
          /\ HasApiKey(owner)
          /\ IF domainActive
             THEN Set(p, [Req("createAlias") EXCEPT !.pc = "k_select", !.email = owner])
             ELSE Set(p, [Req("createAlias") EXCEPT !.pc = "done", !.res = "invalid_domain"])
    /\ UNCHANGED <<now, cfg, load, atr, ec, alias, apiTokens, domainActive,
                   nextId, mail, confirmCount, mutCount, hist,
                   domainsCache,
                   redisVars, bootVars>>

ApiCreateSelect(p) ==
    /\ proc[p].pc = "k_select"
    /\ IF createIfNotExistsSelect(Address) = "alreadyExists"
       THEN Set(p, [proc[p] EXCEPT !.pc = "done", !.res = "alias_taken",
                                   !.cine = "alreadyExists"])
       ELSE Set(p, [proc[p] EXCEPT !.pc = "k_insert"])
    /\ UNCHANGED <<now, cfg, load, atr, ec, alias, apiTokens, domainActive,
                   nextId, mail, calls, confirmCount, mutCount, hist,
                   domainsCache,
                   redisVars, bootVars>>

ApiCreateInsert(p) ==
    /\ proc[p].pc = "k_insert"
    /\ LET out == createIfNotExistsInsert(Address, proc[p].email)
       IN /\ alias' = out.alias
          /\ Set(p, [proc[p] EXCEPT
                   !.pc = "done", !.cine = out.cine,
                   !.res = IF out.cine = "created" THEN "created"
                           ELSE "internal_error"])
    /\ UNCHANGED <<now, cfg, load, atr, ec, apiTokens, domainActive, nextId,
                   mail, calls, confirmCount, mutCount, hist,
                   domainsCache,
                   redisVars, bootVars>>

\* deleteAlias: getByAddress and the owner test
ApiDeleteStart(p) ==
    /\ CanStart(p)
    /\ calls' = calls + 1
    /\ \E owner \in Emails :
          /\ HasApiKey(owner)
          /\ IF AliasRows(Address) = {}
             THEN Set(p, [Req("deleteAlias") EXCEPT !.pc = "done", !.res = "alias_not_found"])
             ELSE IF \E a \in AliasRows(Address) : a.goto # owner
             THEN Set(p, [Req("deleteAlias") EXCEPT !.pc = "done", !.res = "forbidden"])
             ELSE Set(p, [Req("deleteAlias") EXCEPT !.pc = "d_delete", !.email = owner])
    /\ UNCHANGED <<now, cfg, load, atr, ec, alias, apiTokens, domainActive,
                   nextId, mail, confirmCount, mutCount, hist,
                   domainsCache,
                   redisVars, bootVars>>

\* deleteAlias: deleteByAddress
ApiDelete(p) ==
    /\ proc[p].pc = "d_delete"
    /\ alias' = deleteByAddress(Address)
    /\ Set(p, [proc[p] EXCEPT
             !.pc = "done",
             !.res = IF AliasRows(Address) # {} THEN "deleted" ELSE "alias_not_found"])
    /\ UNCHANGED <<now, cfg, load, atr, ec, apiTokens, domainActive, nextId,
                   mail, calls, confirmCount, mutCount, hist,
                   domainsCache,
                   redisVars, bootVars>>

----------------------------------------------------------------------------
(* Environment *)

\* an administrator deactivates the alias domain
DomainDeactivate ==
    /\ domainActive
    /\ domainActive' = FALSE
    /\ UNCHANGED <<now, cfg, load, atr, ec, alias, apiTokens, nextId,
                   mail, proc, calls, confirmCount, mutCount, hist,
                   domainsCache,
                   redisVars, bootVars>>

Tick ==
    /\ now < MaxTime
    /\ now' = now + 1
    /\ UNCHANGED <<cfg, load, atr, ec, alias, apiTokens, domainActive, nextId,
                   mail, proc, calls, confirmCount, mutCount, hist,
                   domainsCache,
                   redisVars, bootVars>>

----------------------------------------------------------------------------

Configs == {[ttl |-> Ttl, cooldown |-> c, maxSends |-> MaxSends] : c \in {0, Cooldown}}

ZeroCount == [k \in {"cred", "alias"} |-> [i \in Ids |-> 0]]

----------------------------------------------------------------------------
(* lib/redis-client.js, middlewares/rate-limit.js, server.js: static parts  *)

NCallers == 2
MaxClients == 2
PollsToTimeout == 2
MaxHits == 2

\* the callers of getRedisClient; the first is initializeRedisStore
Callers == 1..NCallers
BootCaller == CHOOSE c \in Callers : \A d \in Callers : c <= d

CallerIdle == [pc |-> "idle", att |-> 0, polls |-> 0, got |-> 0, err |-> ""]

Settled(c) == caller[c].pc \in {"resolved", "rejected"}

\* routes/index.js: the limiters of a route, in the order they are mounted
Routes == {"/forward/subscribe", "/forward/unsubscribe", "/api/credentials/create"}

Chain(route) ==
    IF route = "/forward/subscribe"
    THEN <<"globalLimiter", "subscribeSlowByIp", "subscribeLimitByIp",
           "subscribeLimitByTo", "subscribeLimitByAlias">>
    ELSE IF route = "/forward/unsubscribe"
    THEN <<"globalLimiter", "unsubscribeSlowByIp", "unsubscribeLimitByIp",
           "unsubscribeLimitByAddress">>
    ELSE <<"globalLimiter">>

\* every read of a getter of rateLimit builds a new limiter: an instance is a
\* route together with the name read for it
Instances ==
    UNION {{<<r, Chain(r)[i]>> : i \in 1..Len(Chain(r))} : r \in Routes}

\* the properties built by slowDown({...}) when rate-limit.js is loaded
SlowDowns == {"subscribeSlowByIp", "unsubscribeSlowByIp"}

\* the instances built by createRateLimiter
RateLimiters == {i \in Instances : i[2] \notin SlowDowns}

NoHits == [memory |-> 0, redis |-> 0]

\* nothing of redis-client.js, rate-limit.js and server.js has run
StartupIdle ==
    /\ client = 0
    /\ isConnecting = FALSE
    /\ isConnected = FALSE
    /\ created = 0
    /\ outcome = [k \in 1..MaxClients |-> "none"]
    /\ caller = [c \in Callers |-> CallerIdle]
    /\ redisClient = 0
    /\ redisInitialized = FALSE
    /\ store = [i \in Instances |-> "unset"]
    /\ phase = "start"
    /\ counted = [i \in Instances |-> NoHits]

InitCommon ==
    /\ now = 0
    /\ atr = {}
    /\ ec = {}
    /\ domainActive = TRUE
    /\ nextId = [atr |-> 1, ec |-> 1]
    /\ mail = {}
    /\ proc = [p \in Procs |-> Idle]
    /\ calls = 0
    /\ confirmCount = ZeroCount
    /\ mutCount = ZeroCount
    /\ hist = <<>>
    /\ domainsCache = NoCache
    /\ StartupIdle /\ redisUrl = FALSE

\* the rows of api_tokens: one API key held by each alias owner
MintedKeys == {[owner_email |-> e, token_hash |-> Hash(<<"hex64", e>>)] : e \in Emails}

\* the alias table is shared with the mail stack: the address may be taken
OwnedAlias == {[address |-> Address, goto |-> "a"]}

\* The steps of confirmCredentials after the lookup (CredMarkConfirmed,
\* CredCreateToken) are no steps of the system: every digest stored in
\* api_token_requests is the digest of a base62 token, and a token reaches the
\* lookup only if it is six digits, so the lookup finds no record.
CredActions(p) ==
    \/ UpsertStart(p)
    \/ UpsertSweep(p)
    \/ UpsertSelect(p)
    \/ UpsertExpire(p)
    \/ UpsertRotate(p)
    \/ UpsertInsert(p)
    \/ UpsertDupEntry(p)
    \/ UpsertCommit(p)
    \/ UpsertLockError(p)
    \/ SendApiTokenMail(p)
    \/ ConfirmCredStart(p)
    \/ CredGetPending(p)

ForwardActions(p) ==
    \/ SubscribeStart(p)
    \/ UnsubscribeStart(p)
    \/ SendGetActivePending(p)
    \/ SendRotate(p)
    \/ SendCreateSweep(p)
    \/ SendCreateInsert(p)
    \/ SendConfirmationMail(p)
    \/ ConfirmActionStart(p)
    \/ ActGetPending(p)
    \/ ActMarkConfirmed(p)
    \/ ActUnsubGetRow(p)
    \/ ActDelete(p)
    \/ ActDomain(p)
    \/ ActExisting(p)
    \/ ActCreateSelect(p)
    \/ ActCreateInsert(p)

ApiActions(p) ==
    \/ ApiCreateStart(p)
    \/ ApiCreateSelect(p)
    \/ ApiCreateInsert(p)
    \/ ApiDeleteStart(p)
    \/ ApiDelete(p)

(* Both confirmation flows side by side *)

Init ==
    /\ InitCommon
    /\ cfg = [ttl |-> Ttl, cooldown |-> Cooldown, maxSends |-> MaxSends]
    /\ load = [requests |-> MaxCalls, intents |-> {"subscribe"}]
    /\ alias \in {{}, OwnedAlias}
    /\ apiTokens = {}

Next ==
    \/ Tick
    \/ DomainDeactivate
    \/ \E p \in Procs : CredActions(p)
    \/ \E p \in Procs : ForwardActions(p)

Spec == Init /\ [][Next]_vars

(* Credential issuance and redemption *)

InitCred ==
    /\ InitCommon
    /\ cfg \in Configs
    /\ load = [requests |-> MaxCallsCred, intents |-> {}]
    /\ alias = {}
    /\ apiTokens = {}

NextCred ==
    \/ Tick
    \/ \E p \in Procs : CredActions(p)

SpecCred == InitCred /\ [][NextCred]_vars

(* Alias confirmations and the API of the alias owners *)

InitAlias ==
    /\ InitCommon
    /\ cfg = [ttl |-> Ttl, cooldown |-> Cooldown, maxSends |-> MaxSends]
    /\ load = [requests |-> MaxCallsAlias, intents |-> {"subscribe"}]
    /\ alias = OwnedAlias
    /\ apiTokens = MintedKeys

NextAlias ==
    \/ Tick
    \/ \E p \in Procs : ForwardActions(p)
    \/ \E p \in Procs : ApiActions(p)

SpecAlias == InitAlias /\ [][NextAlias]_vars

(* One client calling POST /api/credentials/create sequentially: it waits   *)
(* for each response and notes it before the clock moves on                 *)

SeqConfig == [ttl |-> 900, cooldown |-> 60, maxSends |-> 3]

SeqClock == {10, 59, 60, 61, 130, 200, 1100}

SeqIdle == Len(hist) = calls /\ \A q \in Procs : Free(q)

SeqCall(p) == SeqIdle /\ UpsertStart(p)

SeqObserve ==
    /\ Len(hist) < calls
    /\ \E p \in Procs :
          /\ proc[p].pc = "done"
          /\ proc[p].cid = calls
          /\ hist' = Append(hist, [at |-> now, action |-> proc[p].res,
                                   send_count |-> proc[p].meta.send_count])
    /\ UNCHANGED <<now, cfg, load, atr, ec, alias, apiTokens, domainActive, nextId,
                   mail, proc, calls, confirmCount, mutCount,
                   domainsCache,
                   redisVars, bootVars>>

SeqAdvance ==
    /\ SeqIdle
    /\ \E t \in SeqClock : t > now /\ now' = t
    /\ UNCHANGED <<cfg, load, atr, ec, alias, apiTokens, domainActive, nextId,
                   mail, proc, calls, confirmCount, mutCount, hist,
                   domainsCache,
                   redisVars, bootVars>>

InitSeq ==
    /\ InitCommon
    /\ cfg = SeqConfig
    /\ load = [requests |-> MaxCallsSeq, intents |-> {}]
    /\ alias = {}
    /\ apiTokens = {}

NextSeq ==
    \/ SeqAdvance
    \/ SeqObserve
    \/ \E p \in Procs :
        \/ SeqCall(p)
        \/ UpsertSweep(p)
        \/ UpsertSelect(p)
        \/ UpsertRotate(p)
        \/ UpsertInsert(p)
        \/ UpsertCommit(p)
        \/ SendApiTokenMail(p)

SpecSeq == InitSeq /\ [][NextSeq]_vars

----------------------------------------------------------------------------
(* withTxRetry(fn, opts) on an arbitrary unit of work                       *)

MaxRetries == 3

\* the errors a unit of work raises: err.code and err.errno
NoError == [code |-> "", errno |-> 0]

UnitErrors ==
    {[code |-> "ER_LOCK_DEADLOCK", errno |-> 1213],
     [code |-> "ER_LOCK_WAIT_TIMEOUT", errno |-> 1205],
     [code |-> "", errno |-> 1213],
     [code |-> "", errno |-> 1205],
     [code |-> "ER_DUP_ENTRY", errno |-> 1062],
     [code |-> "invalid_email", errno |-> 0]}

isRetryableTxError(err) ==
    \/ err.code = "ER_LOCK_DEADLOCK"
    \/ err.code = "ER_LOCK_WAIT_TIMEOUT"
    \/ err.errno = 1213
    \/ err.errno = 1205

\* opts.maxRetries: absent, or a number of retries
RetryOpts ==
    {[given |-> FALSE, maxRetries |-> 0]}
        \cup {[given |-> TRUE, maxRetries |-> n] : n \in 0..MaxRetries}

\* Number.isFinite(opts.maxRetries) ? opts.maxRetries : DEFAULT_RETRY_MAX
maxRetriesOf(opts) == IF opts.given THEN opts.maxRetries ELSE DEFAULT_RETRY_MAX

RetryCaller == 1

\* the locals of one withTxRetry call; tries lists what each attempt raised
RetryCall(opts) ==
    [pc |-> "r_try", op |-> "withTxRetry", opts |-> opts,
     maxRetries |-> maxRetriesOf(opts),
     attempt |-> 0, tries |-> <<>>, sleeps |-> 0, res |-> "",
     thrown |-> NoError, cause |-> NoError]

TxBusy == [code |-> "tx_busy", errno |-> 0]

\* faulty variant of the catch block: the last lock error is rethrown as it is
withTxRetryCatchRethrowing(c, err) ==
    IF ~isRetryableTxError(err) \/ c.attempt >= c.maxRetries
    THEN [c EXCEPT !.pc = "done", !.res = "threw", !.thrown = err]
    ELSE [c EXCEPT !.pc = "r_sleep"]

\* faulty variant of the catch block: every error is retried
withTxRetryCatchRetryingAll(c, err) ==
    IF c.attempt >= c.maxRetries
    THEN [c EXCEPT !.pc = "done", !.res = "threw", !.thrown = TxBusy, !.cause = err]
    ELSE [c EXCEPT !.pc = "r_sleep"]

\* the catch block of withTxRetry
withTxRetryCatch(c, err) ==
    IF ~isRetryableTxError(err) \/ c.attempt >= c.maxRetries
    THEN IF isRetryableTxError(err)
         THEN [c EXCEPT !.pc = "done", !.res = "threw", !.thrown = TxBusy, !.cause = err]
         ELSE [c EXCEPT !.pc = "done", !.res = "threw", !.thrown = err]
    ELSE [c EXCEPT !.pc = "r_sleep"]

\* one attempt: await withTx(fn) returns, or raises and the catch block runs
RetryAttempt(p) ==
    /\ proc[p].pc = "r_try"
    /\ \/ Set(p, [proc[p] EXCEPT !.pc = "done", !.res = "returned",
                                  !.tries = Append(@, NoError)])
       \/ \E err \in UnitErrors :
             Set(p, withTxRetryCatch([proc[p] EXCEPT !.tries = Append(@, err)], err))
    /\ UNCHANGED <<now, cfg, load, atr, ec, alias, apiTokens, domainActive,
                   nextId, mail, calls, confirmCount, mutCount, hist,
                   domainsCache,
                   redisVars, bootVars>>

\* await sleep(delayMs), then attempt += 1 and the loop test; the statement
\* after the loop throws tx_retry_exhausted
RetrySleep(p) ==
    /\ proc[p].pc = "r_sleep"
    /\ IF proc[p].attempt + 1 <= proc[p].maxRetries
       THEN Set(p, [proc[p] EXCEPT !.pc = "r_try", !.attempt = @ + 1,
                                   !.sleeps = @ + 1])
       ELSE Set(p, [proc[p] EXCEPT !.pc = "done", !.attempt = @ + 1,
                                   !.sleeps = @ + 1, !.res = "threw",
                                   !.thrown = [code |-> "tx_retry_exhausted",
                                               errno |-> 0]])
    /\ UNCHANGED <<now, cfg, load, atr, ec, alias, apiTokens, domainActive,
                   nextId, mail, calls, confirmCount, mutCount, hist,
                   domainsCache,
                   redisVars, bootVars>>

InitRetry ==
    /\ now = 0
    /\ atr = {}
    /\ ec = {}
    /\ domainActive = TRUE
    /\ nextId = [atr |-> 1, ec |-> 1]
    /\ mail = {}
    /\ calls = 0
    /\ confirmCount = ZeroCount
    /\ mutCount = ZeroCount
    /\ hist = <<>>
    /\ domainsCache = NoCache
    /\ cfg = [ttl |-> Ttl, cooldown |-> Cooldown, maxSends |-> MaxSends]
    /\ load = [requests |-> 0, intents |-> {}]
    /\ alias = {}
    /\ apiTokens = {}
    /\ \E opts \in RetryOpts :
          proc = [p \in Procs |-> IF p = RetryCaller THEN RetryCall(opts) ELSE Idle]
    /\ StartupIdle /\ redisUrl = FALSE

NextRetry ==
    \/ RetryAttempt(RetryCaller)
    \/ RetrySleep(RetryCaller)

SpecRetry == InitRetry /\ [][NextRetry]_vars

----------------------------------------------------------------------------
(* upsertPendingByEmailTx when a statement of the transaction raises       *)

MaxCallsTx == 2

\* the positions of upsertPendingByEmailTx inside withTransaction: its
\* statements and conn.commit()
TxPcs == {"u_sweep", "u_select", "u_expire", "u_rotate", "u_insert", "u_dup", "u_commit"}

\* a statement of the transaction, or its commit, raises err (a deadlock the
\* server resolves against this transaction, a lock wait timeout, a lost
\* connection, ...): withTransaction rolls back and rethrows, and withTxRetry
\* retries a transient error, ends in tx_busy, or rethrows
UpsertStatementError(p) ==
    /\ proc[p].pc \in TxPcs
    /\ \E err \in UnitErrors :
          IF isRetryableTxError(err)
          THEN Set(p, withTxRetryOnLockError(p))
          ELSE Set(p, [proc[p] EXCEPT !.pc = "done", !.res = err.code,
                                      !.w = {}, !.locks = {}, !.pend = NoRow])
    /\ atr' = rollback(atr, proc[p].w)
    /\ UNCHANGED <<now, cfg, load, ec, alias, apiTokens, domainActive,
                   nextId, mail, calls, confirmCount, mutCount, hist,
                   domainsCache,
                   redisVars, bootVars>>

InitTx ==
    /\ InitCommon
    /\ cfg \in Configs
    /\ load = [requests |-> MaxCallsTx, intents |-> {}]
    /\ alias = {}
    /\ apiTokens = {}

NextTx ==
    \/ Tick
    \/ \E p \in Procs : CredActions(p)
    \/ \E p \in Procs : UpsertStatementError(p)

SpecTx == InitTx /\ [][NextTx]_vars

----------------------------------------------------------------------------
(* Concurrent upsertPendingByEmailTx calls on one pending row              *)

\* the row an earlier createCredentials request (the first of the run) left:
\* created at time 0, one send, its cooldown over at time cfg.cooldown
RaceRow == [id |-> 1, email |-> CredEmail, token_hash |-> Hash(<<"base62", 1>>),
            status |-> "pending", expires_at |-> Ttl, send_count |-> 1,
            last_sent_at |-> 0]

\* every slot holds a createCredentials request for the email of RaceRow that
\* has entered upsertPendingByEmailTx and has run no statement yet; the row is
\* unexpired, its cooldown has just ended and it is below maxSendCount
InitRace ==
    /\ now = Cooldown
    /\ cfg \in {[ttl |-> Ttl, cooldown |-> Cooldown, maxSends |-> m] :
                   m \in {MaxSends, MaxSends + 1}}
    /\ atr = {RaceRow}
    /\ ec = {}
    /\ alias = {}
    /\ apiTokens = {}
    /\ domainActive = TRUE
    /\ nextId = [atr |-> 2, ec |-> 1]
    /\ mail = {[kind |-> "cred", secret |-> <<"base62", 1>>]}
    /\ proc = [p \in Procs |->
                  [Idle EXCEPT !.op = "createCredentials", !.pc = "u_sweep",
                               !.email = CredEmail, !.cid = p + 1]]
    /\ calls = NProcs + 1
    /\ load = [requests |-> NProcs + 1, intents |-> {}]
    /\ confirmCount = ZeroCount
    /\ mutCount = ZeroCount
    /\ hist = <<>>
    /\ domainsCache = NoCache
    /\ StartupIdle /\ redisUrl = FALSE

NextRace ==
    \/ Tick
    \/ \E p \in Procs : UpsertSweep(p)
    \/ \E p \in Procs : UpsertSelect(p)
    \/ \E p \in Procs : UpsertExpire(p)
    \/ \E p \in Procs : UpsertRotate(p)
    \/ \E p \in Procs : UpsertInsert(p)
    \/ \E p \in Procs : UpsertCommit(p)
    \/ \E p \in Procs : UpsertLockError(p)
    \/ \E p \in Procs : SendApiTokenMail(p)

SpecRace == InitRace /\ [][NextRace]_vars

----------------------------------------------------------------------------
(* A rate-limited email whose client keeps calling POST                    *)
(* /api/credentials/create while the time advances                         *)

\* the time of the last of the maxSendCount sends, each made as soon as the
\* cooldown of the one before allowed it
LastSendAt(c) == (c.maxSends - 1) * c.cooldown

\* the pending row after those sends
LimitedRow(c) ==
    [id |-> 1, email |-> CredEmail, token_hash |-> Hash(<<"base62", c.maxSends>>),
     status |-> "pending", expires_at |-> LastSendAt(c) + c.ttl,
     send_count |-> c.maxSends, last_sent_at |-> LastSendAt(c)]

\* the secrets mailed by those sends
LimitedMail == {[kind |-> "cred", secret |-> <<"base62", k>>] : k \in 1..MaxSends}

\* the clock runs until the new row of the email has expired too
LiveHorizon == (MaxSends - 1) * Cooldown + 2 * Ttl

\* the row of the email has reached maxSendCount; no request is in flight
InitLive ==
    /\ cfg \in Configs
    /\ now = LastSendAt(cfg)
    /\ atr = {LimitedRow(cfg)}
    /\ ec = {}
    /\ alias = {}
    /\ apiTokens = {}
    /\ domainActive = TRUE
    /\ nextId = [atr |-> 2, ec |-> 1]
    /\ mail = LimitedMail
    /\ proc = [p \in Procs |-> Idle]
    /\ calls = MaxSends
    /\ load = [requests |-> MaxSends + 1, intents |-> {}]
    /\ confirmCount = ZeroCount
    /\ mutCount = ZeroCount
    /\ hist = <<>>
    /\ domainsCache = NoCache
    /\ StartupIdle /\ redisUrl = FALSE

LiveTick ==
    /\ now < LiveHorizon
    /\ now' = now + 1
    /\ UNCHANGED <<cfg, load, atr, ec, alias, apiTokens, domainActive, nextId,
                   mail, proc, calls, confirmCount, mutCount, hist,
                   domainsCache,
                   redisVars, bootVars>>

\* the client calls again once it has its answer, as long as it has received
\* no new secret; hist keeps the time at which the call began
LiveCall(p) ==
    /\ CanStart(p)
    /\ \A q \in Procs : Free(q)
    /\ mail = LimitedMail
    /\ Set(p, [Req("createCredentials") EXCEPT !.pc = "u_sweep", !.email = CredEmail])
    /\ hist' = <<now>>
    /\ UNCHANGED <<now, cfg, load, atr, ec, alias, apiTokens, domainActive,
                   nextId, mail, calls, confirmCount, mutCount,
                   domainsCache,
                   redisVars, bootVars>>

LiveStep(p) ==
    \/ UpsertSweep(p)
    \/ UpsertSelect(p)
    \/ UpsertExpire(p)
    \/ UpsertInsert(p)
    \/ UpsertCommit(p)
    \/ SendApiTokenMail(p)

NextLive ==
    \/ LiveTick
    \/ \E p \in Procs : LiveCall(p)
    \/ \E p \in Procs : LiveStep(p)

\* the time advances, the client keeps calling, and every call runs to its end
SpecLive ==
    /\ InitLive /\ [][NextLive]_vars
    /\ WF_vars(LiveTick)
    /\ \A p \in Procs : WF_vars(LiveCall(p)) /\ WF_vars(LiveStep(p))

----------------------------------------------------------------------------
(* sendEmailConfirmation with codes drawn from the code space              *)

MaxCallsCode == 3

\* the size of the code space of the run (crypto.randomInt(0, 1_000_000) draws
\* from a million codes)
MaxCode == 2

\* generateConfirmationCode: any code of the space, whatever was drawn before
CodeSpace == {<<"digits", k>> : k \in 1..MaxCode}

\* lines 326-339 with the code drawn at random: the cooldown test on the row
\* read without a lock, then const token = generateConfirmationCode()
SendGetActivePendingDraw(p) ==
    /\ proc[p].pc = "s_get"
    /\ LET pending == getActivePendingByEmail(proc[p].email)
       IN IF pending.id # 0 /\ now - pending.last_sent_at < cfg.cooldown
          THEN Set(p, [proc[p] EXCEPT !.pc = "done", !.res = "cooldown",
                                      !.pend = pending])
          ELSE \E code \in CodeSpace :
                 Set(p, [proc[p] EXCEPT
                     !.pc = IF pending.id # 0 THEN "s_rotate" ELSE "s_sweep",
                     !.pend = pending, !.tok = code])
    /\ UNCHANGED <<now, cfg, load, atr, ec, alias, apiTokens, domainActive,
                   nextId, mail, calls, confirmCount, mutCount, hist,
                   domainsCache,
                   redisVars, bootVars>>

InitCode ==
    /\ InitCommon
    /\ cfg = [ttl |-> Ttl, cooldown |-> Cooldown, maxSends |-> MaxSends]
    /\ load = [requests |-> MaxCallsCode, intents |-> {"subscribe"}]
    /\ alias = {}
    /\ apiTokens = {}

NextCode ==
    \/ Tick
    \/ \E p \in Procs : SubscribeStart(p)
    \/ \E p \in Procs : SendGetActivePendingDraw(p)
    \/ \E p \in Procs : SendRotate(p)
    \/ \E p \in Procs : SendCreateSweep(p)
    \/ \E p \in Procs : SendCreateInsert(p)
    \/ \E p \in Procs : SendConfirmationMail(p)
    \/ \E p \in Procs : ConfirmActionStart(p)
    \/ \E p \in Procs : ActGetPending(p)
    \/ \E p \in Procs : ActMarkConfirmed(p)
    \/ \E p \in Procs : ActDomain(p)
    \/ \E p \in Procs : ActExisting(p)
    \/ \E p \in Procs : ActCreateSelect(p)
    \/ \E p \in Procs : ActCreateInsert(p)

SpecCode == InitCode /\ [][NextCode]_vars

----------------------------------------------------------------------------
(* sendApiTokenRequestEmail around the result of upsertPendingByEmailTx    *)

SendCaller == 1

\* config.smtpFrom, config.appPublicUrl, config.smtpHost: each is set or empty
\* (SMTP_FROM, APP_PUBLIC_URL and SMTP_HOST default to "")
MailConfigs ==
    {[smtpFrom |-> f, appPublicUrl |-> u, smtpHost |-> h] :
        f \in {"", "noreply@x"}, u \in {"", "https://x"}, h \in {"", "smtp.x"}}

\* what upsertPendingByEmailTx hands back: an action, with or without token_plain
UpsertResults ==
    {[action |-> a, token_plain |-> t] :
        a \in UpsertActions, t \in {NoToken, <<"base62", 1>>}}

NoResult == [action |-> "", token_plain |-> NoToken]

\* the locals of one sendApiTokenRequestEmail call; invoked counts the calls of
\* transporter.sendMail
SendCall(to, conf) ==
    [pc |-> "m_start", op |-> "sendApiTokenRequestEmail", to |-> to, conf |-> conf,
     result |-> NoResult, invoked |-> 0, res |-> "", thrown |-> "",
     ret |-> [ok |-> FALSE, sent |-> FALSE, reason |-> "", action |-> ""]]

SendThrow(c, message) == [c EXCEPT !.pc = "done", !.res = "threw", !.thrown = message]

\* faulty variant: token_plain is not tested before the mail is built
afterUpsertNoTokenTest(c, result) ==
    LET d == [c EXCEPT !.result = result]
    IN IF result.action \in {"cooldown", "rate_limited"}
       THEN [d EXCEPT !.pc = "done", !.res = "returned",
                      !.ret = [ok |-> TRUE, sent |-> FALSE, reason |-> result.action,
                               action |-> ""]]
       ELSE IF c.conf.smtpFrom = "" THEN SendThrow(d, "missing_SMTP_FROM")
       ELSE IF c.conf.appPublicUrl = "" THEN SendThrow(d, "missing_APP_PUBLIC_URL")
       ELSE IF c.conf.smtpHost = "" THEN SendThrow(d, "missing_SMTP_HOST")
       ELSE [d EXCEPT !.pc = "m_send", !.invoked = @ + 1]

\* sendApiTokenRequestEmail from the return of the upsert to the call of
\* transporter.sendMail: the throttled return, the tests of token_plain and
\* smtpFrom, buildConfirmUrl and makeTransport
afterUpsert(c, result) ==
    LET d == [c EXCEPT !.result = result]
    IN IF result.action \in {"cooldown", "rate_limited"}
       THEN [d EXCEPT !.pc = "done", !.res = "returned",
                      !.ret = [ok |-> TRUE, sent |-> FALSE, reason |-> result.action,
                               action |-> ""]]
       ELSE IF result.token_plain = NoToken THEN SendThrow(d, "missing_token_plain")
       ELSE IF c.conf.smtpFrom = "" THEN SendThrow(d, "missing_SMTP_FROM")
       ELSE IF c.conf.appPublicUrl = "" THEN SendThrow(d, "missing_APP_PUBLIC_URL")
       ELSE IF c.conf.smtpHost = "" THEN SendThrow(d, "missing_SMTP_HOST")
       ELSE [d EXCEPT !.pc = "m_send", !.invoked = @ + 1]

\* if (!to) throw invalid_email; then await upsertPendingByEmailTx(...), which
\* returns a result or throws, and the code up to transporter.sendMail
SendUpsert(p) ==
    /\ proc[p].pc = "m_start"
    /\ IF proc[p].to = ""
       THEN Set(p, SendThrow(proc[p], "invalid_email"))
       ELSE \/ \E result \in UpsertResults : Set(p, afterUpsert(proc[p], result))
            \/ Set(p, SendThrow(proc[p], "tx_busy"))
    /\ UNCHANGED <<now, cfg, load, atr, ec, alias, apiTokens, domainActive,
                   nextId, mail, calls, confirmCount, mutCount, hist,
                   domainsCache,
                   redisVars, bootVars>>

\* await transporter.sendMail(...): the message is handed over, or the
\* transport rejects and the error propagates
SendMailDone(p) ==
    /\ proc[p].pc = "m_send"
    /\ \/ /\ mail' = mail \cup {[kind |-> "cred", secret |-> proc[p].result.token_plain]}
          /\ Set(p, [proc[p] EXCEPT
                   !.pc = "done", !.res = "returned",
                   !.ret = [ok |-> TRUE, sent |-> TRUE, reason |-> "",
                            action |-> proc[p].result.action]])
       \/ /\ UNCHANGED mail
          /\ Set(p, SendThrow(proc[p], "smtp_error"))
    /\ UNCHANGED <<now, cfg, load, atr, ec, alias, apiTokens, domainActive,
                   nextId, calls, confirmCount, mutCount, hist,
                   domainsCache,
                   redisVars, bootVars>>

InitSend ==
    /\ now = 0
    /\ atr = {}
    /\ ec = {}
    /\ domainActive = TRUE
    /\ nextId = [atr |-> 1, ec |-> 1]
    /\ mail = {}
    /\ calls = 0
    /\ confirmCount = ZeroCount
    /\ mutCount = ZeroCount
    /\ hist = <<>>
    /\ domainsCache = NoCache
    /\ cfg = [ttl |-> Ttl, cooldown |-> Cooldown, maxSends |-> MaxSends]
    /\ load = [requests |-> 0, intents |-> {}]
    /\ alias = {}
    /\ apiTokens = {}
    /\ \E to \in Emails \cup {""} : \E conf \in MailConfigs :
          proc = [p \in Procs |-> IF p = SendCaller THEN SendCall(to, conf) ELSE Idle]
    /\ StartupIdle /\ redisUrl = FALSE

NextSend ==
    \/ SendUpsert(SendCaller)
    \/ SendMailDone(SendCaller)

SpecSend == InitSend /\ [][NextSend]_vars

----------------------------------------------------------------------------
(* POST /api/credentials/create: the validation and the ban lookups of      *)
(* createCredentials, before sendApiTokenRequestEmail                       *)

MaxEmailLen == 6

MAX_EMAIL_LEN == 254

\* the characters of the request values: a letter, its upper case, the at
\* sign, the dot and the blank
Chars == {"a", "A", "@", ".", " "}

\* req.body.email: a string, or a value that is no string (undefined, a number)
EmailRaws ==
    {[isString |-> TRUE, chars |-> cs] : cs \in UNION {[1..k -> Chars] : k \in 0..MaxEmailLen}}
        \cup {[isString |-> FALSE, chars |-> <<>>]}

\* req.body.days as Number(String(raw ?? "").trim()) reads it: an integer, a
\* fraction, or NaN; a missing value reads as 0
DaysRaws ==
    {[kind |-> "int", n |-> n] : n \in {-1, 0, 1, 90, 91}}
        \cup {[kind |-> "frac", n |-> 1], [kind |-> "nan", n |-> 0]}

toLowerCase(cs) == [i \in 1..Len(cs) |-> IF cs[i] = "A" THEN "a" ELSE cs[i]]

trim(cs) ==
    LET kept == {i \in 1..Len(cs) : cs[i] # " "}
    IN IF kept = {} THEN <<>>
       ELSE SubSeq(cs, CHOOSE i \in kept : \A j \in kept : i <= j,
                       CHOOSE i \in kept : \A j \in kept : j <= i)

normStr(value) == IF ~value.isString THEN <<>> ELSE toLowerCase(trim(value.chars))

\* value.indexOf(c, from), with positions counted from 1 and 0 for no match
indexOf(cs, c, from) ==
    LET hits == {i \in from..Len(cs) : cs[i] = c}
    IN IF hits = {} THEN 0 ELSE CHOOSE i \in hits : \A j \in hits : i <= j

IsAlnum(c) == c = "a"

\* RE_EMAIL_LOCAL = /^[a-z0-9](?:[a-z0-9._-]{0,62}[a-z0-9])?$/
RE_EMAIL_LOCAL(cs) ==
    /\ Len(cs) >= 1 /\ Len(cs) <= 64
    /\ IsAlnum(cs[1]) /\ IsAlnum(cs[Len(cs)])
    /\ \A i \in 1..Len(cs) : IsAlnum(cs[i]) \/ cs[i] \in {".", "_", "-"}

\* a label of RE_DOMAIN: [a-z0-9](?:[a-z0-9-]{0,61}[a-z0-9])?
IsLabel(cs) ==
    /\ Len(cs) >= 1 /\ Len(cs) <= 63
    /\ IsAlnum(cs[1]) /\ IsAlnum(cs[Len(cs)])
    /\ \A i \in 1..Len(cs) : IsAlnum(cs[i]) \/ cs[i] = "-"

\* RE_DOMAIN = /^(?=.{1,253}$)(?:label\.)+[a-z]{2,63}$/
RE_DOMAIN(cs) ==
    LET dots == {i \in 1..Len(cs) : cs[i] = "."}
        last == CHOOSE i \in dots : \A j \in dots : j <= i
        cuts == dots \cup {0}
    IN /\ Len(cs) >= 1 /\ Len(cs) <= 253
       /\ dots # {}
       /\ Len(cs) - last >= 2 /\ Len(cs) - last <= 63
       /\ \A i \in (last + 1)..Len(cs) : cs[i] = "a"
       /\ \A d \in dots :
             LET from == CHOOSE i \in cuts : i < d /\ \A j \in cuts : j < d => j <= i
             IN IsLabel(SubSeq(cs, from + 1, d - 1))

NoEmail == [ok |-> FALSE, email |-> <<>>]

parseEmailStrict(raw) ==
    LET value == normStr(raw)
        at == indexOf(value, "@", 1)
    IN IF value = <<>> \/ Len(value) > MAX_EMAIL_LEN THEN NoEmail
       ELSE IF at <= 1 THEN NoEmail
       ELSE IF indexOf(value, "@", at + 1) # 0 THEN NoEmail
       ELSE IF ~RE_EMAIL_LOCAL(SubSeq(value, 1, at - 1)) THEN NoEmail
       ELSE IF ~RE_DOMAIN(SubSeq(value, at + 1, Len(value))) THEN NoEmail
       ELSE [ok |-> TRUE, email |-> value]

\* parseDays: the number, or 0 for null
parseDays(raw) ==
    IF raw.kind # "int" THEN 0
    ELSE IF raw.n <= 0 \/ raw.n > 90 THEN 0 ELSE raw.n

MaxCallsCreate == 1

\* the locals of one createCredentials request
CreateCall(emailRaw, daysRaw) ==
    [pc |-> "done", op |-> "createCredentials", emailRaw |-> emailRaw,
     daysRaw |-> daysRaw, days |-> 0, field |-> "", email |-> <<>>,
     tok |-> NoToken, pend |-> NoRow, w |-> {}, locks |-> {}, attempt |-> 0,
     ins |-> 0, res |-> "", meta |-> NoRow, intent |-> "", marked |-> FALSE,
     cine |-> "", cid |-> calls + 1]

\* faulty variant: days is not validated
createCredentialsValidateNoDays(c) ==
    IF ~parseEmailStrict(c.emailRaw).ok
    THEN [c EXCEPT !.pc = "done", !.res = "invalid_params", !.field = "email"]
    ELSE [c EXCEPT !.pc = "b_ip", !.email = parseEmailStrict(c.emailRaw).email,
                   !.days = parseDays(c.daysRaw)]

\* createCredentials up to its first await: parseEmailStrict, parseDays and the
\* two 400 invalid_params returns
createCredentialsValidate(c) ==
    IF ~parseEmailStrict(c.emailRaw).ok
    THEN [c EXCEPT !.pc = "done", !.res = "invalid_params", !.field = "email"]
    ELSE IF parseDays(c.daysRaw) = 0
    THEN [c EXCEPT !.pc = "done", !.res = "invalid_params", !.field = "days"]
    ELSE [c EXCEPT !.pc = "b_ip", !.email = parseEmailStrict(c.emailRaw).email,
                   !.days = parseDays(c.daysRaw)]

CreateStart(p) ==
    /\ CanStart(p)
    /\ calls' = calls + 1
    /\ \E emailRaw \in EmailRaws : \E daysRaw \in DaysRaws :
          Set(p, createCredentialsValidate(CreateCall(emailRaw, daysRaw)))
    /\ UNCHANGED <<now, cfg, load, atr, ec, alias, apiTokens, domainActive,
                   nextId, mail, confirmCount, mutCount, hist,
                   domainsCache,
                   redisVars, bootVars>>

\* if (req.ip) { ban = await bansRepository.getBannedIP(req.ip) ... }: the
\* lookup finds a ban or none; without req.ip the lookup is skipped
BanIp(p) ==
    /\ proc[p].pc = "b_ip"
    /\ \E banned \in BOOLEAN :
          IF banned
          THEN Set(p, [proc[p] EXCEPT !.pc = "done", !.res = "banned"])
          ELSE Set(p, [proc[p] EXCEPT !.pc = "b_email"])
    /\ UNCHANGED <<now, cfg, load, atr, ec, alias, apiTokens, domainActive,
                   nextId, mail, calls, confirmCount, mutCount, hist,
                   domainsCache,
                   redisVars, bootVars>>

\* banEmail = await bansRepository.getBannedEmail(parsedEmail.email), then the
\* call of sendApiTokenRequestEmail, which starts upsertPendingByEmailTx
BanEmail(p) ==
    /\ proc[p].pc = "b_email"
    /\ \E banned \in BOOLEAN :
          IF banned
          THEN Set(p, [proc[p] EXCEPT !.pc = "done", !.res = "banned"])
          ELSE Set(p, [proc[p] EXCEPT !.pc = "u_sweep"])
    /\ UNCHANGED <<now, cfg, load, atr, ec, alias, apiTokens, domainActive,
                   nextId, mail, calls, confirmCount, mutCount, hist,
                   domainsCache,
                   redisVars, bootVars>>

InitCreate ==
    /\ InitCommon
    /\ cfg \in Configs
    /\ load = [requests |-> MaxCallsCreate, intents |-> {}]
    /\ alias = {}
    /\ apiTokens = {}

NextCreate ==
    \E p \in Procs :
        \/ CreateStart(p)
        \/ BanIp(p)
        \/ BanEmail(p)
        \/ UpsertSweep(p)
        \/ UpsertSelect(p)
        \/ UpsertInsert(p)
        \/ UpsertCommit(p)
        \/ SendApiTokenMail(p)

SpecCreate == InitCreate /\ [][NextCreate]_vars

----------------------------------------------------------------------------
(* resolveConfirmBaseUrl and getActiveDomainSetCached                      *)

MaxCallsBase == 2

\* DOMAINS_CACHE_TTL_MS = 10_000, in steps of the clock of 5 seconds
DomainsCacheTtl == 2

\* the domain names of the run; listActiveNames returns some of them
DomainNames == {"t.example", "u.example"}

\* an Origin or Referer header: absent, a string that new URL() rejects, or a
\* URL with its protocol, hostname and path
HeaderRaws ==
    {[kind |-> "absent", protocol |-> "", hostname |-> "", path |-> ""],
     [kind |-> "garbage", protocol |-> "", hostname |-> "", path |-> ""],
     [kind |-> "url", protocol |-> "https:", hostname |-> "t.example", path |-> "/app"],
     [kind |-> "url", protocol |-> "https:", hostname |-> "u.example", path |-> ""],
     [kind |-> "url", protocol |-> "javascript:", hostname |-> "t.example", path |-> ""],
     [kind |-> "url", protocol |-> "https:", hostname |-> "192.0.2.1", path |-> ""]}

\* normalizeDomainTarget(hostname): a domain name, or not ok (an IP address)
normalizeDomainTarget(raw) ==
    IF raw \in DomainNames THEN [ok |-> TRUE, value |-> raw]
    ELSE [ok |-> FALSE, value |-> ""]

NoCandidate == [ok |-> FALSE, origin |-> <<>>, domain |-> ""]

\* parseHeaderOriginCandidate: { origin, domain } or null; the origin is the
\* URL without its path
parseHeaderOriginCandidate(raw) ==
    IF raw.kind # "url" THEN NoCandidate
    ELSE IF raw.protocol \notin {"http:", "https:"} THEN NoCandidate
    ELSE IF ~normalizeDomainTarget(raw.hostname).ok THEN NoCandidate
    ELSE [ok |-> TRUE, origin |-> <<raw.protocol, raw.hostname>>,
          domain |-> normalizeDomainTarget(raw.hostname).value]

\* the locals of one resolveConfirmBaseUrl call; fetches counts its calls of
\* domainRepository.listActiveNames, view is the domain set it decided with
ResolveCall(origin, referer) ==
    [pc |-> "d_fetch", op |-> "resolveConfirmBaseUrl", requestOrigin |-> origin,
     requestReferer |-> referer, startedAt |-> now, readAt |-> now, fetches |-> 0,
     view |-> "none", names |-> {}, res |-> "", ret |-> <<>>, thrown |-> "",
     cid |-> calls + 1]

\* the candidates in the order [requestOrigin, requestReferer], nulls removed
Candidates(c) ==
    SelectSeq(<<parseHeaderOriginCandidate(c.requestOrigin),
                parseHeaderOriginCandidate(c.requestReferer)>>,
              LAMBDA x : x.ok)

\* faulty variant: the Referer is preferred to the Origin
pickOriginRefererFirst(c, activeDomains, fallback) ==
    LET cs == Candidates(c)
        hits == {i \in 1..Len(cs) : cs[i].domain \in activeDomains}
    IN IF hits = {} THEN <<fallback>>
       ELSE cs[CHOOSE i \in hits : \A j \in hits : j <= i].origin

\* for (const candidate of candidates) if (activeDomains.has(candidate.domain))
\*   return candidate.origin; ... return fallback
pickOrigin(c, activeDomains, fallback) ==
    LET cs == Candidates(c)
        hits == {i \in 1..Len(cs) : cs[i].domain \in activeDomains}
    IN IF hits = {} THEN <<fallback>>
       ELSE cs[CHOOSE i \in hits : \A j \in hits : i <= j].origin

\* domainsCache.data && now - domainsCache.at < DOMAINS_CACHE_TTL_MS
CacheFresh(t) == domainsCache.filled /\ t - domainsCache.at < DomainsCacheTtl

\* resolveConfirmBaseUrl up to the await of listActiveNames:
\* getDefaultConfirmBaseUrl, the candidates, and the answer from the cache
ResolveStart(p) ==
    /\ CanStart(p)
    /\ calls' = calls + 1
    /\ \E origin \in HeaderRaws, referer \in HeaderRaws :
          LET c == ResolveCall(origin, referer)
          IN IF cfg.appPublicUrl = ""
             THEN Set(p, [c EXCEPT !.pc = "done", !.res = "threw",
                                   !.thrown = "missing_APP_PUBLIC_URL"])
             ELSE IF Len(Candidates(c)) = 0
             THEN Set(p, [c EXCEPT !.pc = "done", !.res = "returned",
                                   !.ret = <<cfg.appPublicUrl>>])
             ELSE IF CacheFresh(now)
             THEN Set(p, [c EXCEPT !.pc = "done", !.res = "returned",
                                   !.view = "cache", !.names = domainsCache.data,
                                   !.ret = pickOrigin(c, domainsCache.data,
                                                      cfg.appPublicUrl)])
             ELSE Set(p, c)
    /\ UNCHANGED <<now, cfg, load, atr, ec, alias, apiTokens, domainActive,
                   nextId, mail, confirmCount, mutCount, hist, domainsCache,
                   redisVars, bootVars>>

\* await domainRepository.listActiveNames() returns the names that are active
\* now, or rejects; then domainsCache = { at: now, data: set } with the clock
\* value read before the await
ResolveFetch(p) ==
    /\ proc[p].pc = "d_fetch"
    /\ \/ \E names \in SUBSET DomainNames :
             /\ domainsCache' = [at |-> proc[p].readAt, data |-> names,
                                 filled |-> TRUE, doneAt |-> now]
             /\ Set(p, [proc[p] EXCEPT
                      !.pc = "done", !.res = "returned", !.fetches = @ + 1,
                      !.view = "fetched", !.names = names,
                      !.ret = pickOrigin(proc[p], names, cfg.appPublicUrl)])
       \/ /\ UNCHANGED domainsCache
          /\ Set(p, [proc[p] EXCEPT
                   !.pc = "done", !.res = "returned", !.fetches = @ + 1,
                   !.view = "failed", !.ret = <<cfg.appPublicUrl>>])
    /\ UNCHANGED <<now, cfg, load, atr, ec, alias, apiTokens, domainActive,
                   nextId, mail, calls, confirmCount, mutCount, hist,
                   redisVars, bootVars>>

InitBase ==
    /\ InitCommon
    /\ cfg \in {[ttl |-> Ttl, cooldown |-> Cooldown, maxSends |-> MaxSends,
                 appPublicUrl |-> u] : u \in {"", "http://localhost:8080"}}
    /\ load = [requests |-> MaxCallsBase, intents |-> {}]
    /\ alias = {}
    /\ apiTokens = {}

NextBase ==
    \/ Tick
    \/ \E p \in Procs : ResolveStart(p)
    \/ \E p \in Procs : ResolveFetch(p)

SpecBase == InitBase /\ [][NextBase]_vars

----------------------------------------------------------------------------
(* Properties *)

Redemption(p) == proc[p].op \in {"confirmCredentials", "confirmAction"}

\* the table a redemption request works on
TableOf(p) == IF proc[p].op = "confirmCredentials" THEN atr ELSE ec

ExpiredPending(r) == r.status = "pending" /\ r.expires_at <= now

\* the program counters at which a guarded mutation is being executed
MutationPcs == {"c_create", "a_cselect", "a_cinsert", "a_delete"}

\* the secret a redemption presents was mailed by the issuance of its endpoint
Issued(p) ==
    \E m \in mail :
        /\ m.secret = proc[p].tok
        /\ m.kind = IF proc[p].op = "confirmCredentials" THEN "cred" ELSE "alias"

\* C1. Idempotent redemption, for confirmCredentials and confirmAction alike and
\* under every interleaving: a pending record is confirmed (markConfirmedById =
\* true) at most once and its guarded mutation is invoked at most once, by the
\* request that confirmed it; of two requests presenting the same secret at most
\* one is confirmed; every redemption of an issued secret that is not confirmed
\* answers invalid_or_expired.
C1_IdempotentRedemption ==
    /\ \A k \in {"cred", "alias"} : \A id \in Ids :
          /\ confirmCount[k][id] <= 1
          /\ mutCount[k][id] <= confirmCount[k][id]
    /\ \A p \in Procs :
          (Redemption(p) /\ Issued(p) /\ proc[p].pc = "done" /\ ~proc[p].marked)
             => proc[p].res = "invalid_or_expired"
    /\ \A p \in Procs : \A q \in Procs \ {p} :
          (Redemption(p) /\ proc[q].op = proc[p].op /\ proc[q].tok = proc[p].tok)
             => ~(proc[p].marked /\ proc[q].marked)

\* the rows of a table that are pending and unexpired for an email
PendingUnexpired(tbl, email) ==
    {r \in tbl : r.email = email /\ r.status = "pending" /\ r.expires_at > now}

\* every request is over, an issuance ran, and no record was confirmed or left
\* to expire since
IssuanceSettled ==
    /\ \A p \in Procs : Free(p)
    /\ \E p \in Procs : proc[p].op = "createCredentials"
    /\ \A r \in atr : r.status # "confirmed" /\ ~ExpiredPending(r)

\* C2. Under any interleaving of upsertPendingByEmailTx calls for one email, the
\* committed api_token_requests rows never hold two pending unexpired rows for
\* that email; once all calls have finished (and before the record is confirmed
\* or expires) exactly one such row exists and its send_count is at least 1.
C2_OnePendingRow ==
    /\ \A e \in Emails : Cardinality(PendingUnexpired(atr, e)) <= 1
    /\ IssuanceSettled =>
          /\ Cardinality(PendingUnexpired(atr, CredEmail)) = 1
          /\ \A r \in PendingUnexpired(atr, CredEmail) : r.send_count >= 1

\* two calls raced on a new email (with no cooldown configured only the loser
\* of the INSERT race can answer cooldown); both are over and one row exists
C2_Witness ==
    /\ cfg.cooldown = 0
    /\ calls = 2
    /\ \E p \in Procs : \E q \in Procs \ {p} :
          /\ proc[p].op = "createCredentials" /\ proc[q].op = "createCredentials"
          /\ proc[p].pc = "done" /\ proc[q].pc = "done"
          /\ proc[p].res = "created" /\ proc[q].res = "cooldown"
    /\ Cardinality(PendingUnexpired(atr, CredEmail)) = 1
    /\ Cardinality(atr) = 1

\* C3. A guarded mutation (createToken, createIfNotExists, deleteByAddress) of a
\* confirm endpoint is executed only by a request whose own markConfirmedById
\* returned true for the record it looked up: while a request is at a mutation
\* step it has confirmed, and its record is stored as confirmed.
C3_MutationOnlyAfterConfirm ==
    \A p \in Procs :
        proc[p].pc \in MutationPcs =>
            /\ Redemption(p)
            /\ proc[p].marked
            /\ confirmCount[IF proc[p].op = "confirmCredentials" THEN "cred" ELSE "alias"]
                           [proc[p].pend.id] = 1
            /\ \E r \in TableOf(p) : r.id = proc[p].pend.id /\ r.status = "confirmed"

\* an unsubscribe redemption is about to delete the alias after its confirmation
C3_Witness ==
    \E p \in Procs :
        /\ proc[p].pc = "a_delete"
        /\ proc[p].marked
        /\ \E r \in ec : r.id = proc[p].pend.id /\ r.status = "confirmed"

C4_Step ==
    /\ \A r \in atr : ExpiredPending(r) =>
          \A x \in atr' : x.id = r.id => x.status # "confirmed"
    /\ \A r \in ec : ExpiredPending(r) =>
          \A x \in ec' : x.id = r.id => x.status # "confirmed"
    /\ \A p \in Procs :
          /\ (proc[p].pc \in {"c_get", "a_get"} /\ proc'[p].pc \in {"c_mark", "a_mark"})
                => (proc'[p].pend.status = "pending" /\ proc'[p].pend.expires_at > now)
          /\ (/\ proc[p].pc \in {"c_mark", "a_mark"}
              /\ proc'[p].pc # proc[p].pc
              /\ \E r \in TableOf(p) : r.id = proc[p].pend.id /\ ExpiredPending(r))
                => /\ proc'[p].pc = "done"
                   /\ proc'[p].res = "invalid_or_expired"
                   /\ ~proc'[p].marked
                   /\ mutCount' = mutCount
                   /\ confirmCount' = confirmCount

\* C4. A pending record whose expires_at is at or before the current time is
\* never confirmed, in either table and without any sweep: no step turns such a
\* record into a confirmed one, getPendingByTokenHash returns only unexpired
\* pending records, and a markConfirmedById that meets a record expired since the
\* lookup ends the request with invalid_or_expired and no mutation.
C4_ExpiredNeverConfirmed == [][C4_Step]_vars

\* a redemption found its record, the record expired before markConfirmedById,
\* and the request answered invalid_or_expired; the record is still stored pending
C4_Witness ==
    \E p \in Procs :
        /\ Redemption(p)
        /\ proc[p].pc = "done"
        /\ proc[p].res = "invalid_or_expired"
        /\ proc[p].pend.id # 0
        /\ \E r \in TableOf(p) :
              r.id = proc[p].pend.id /\ ExpiredPending(r)
                  /\ r.token_hash = Hash(proc[p].tok)

\* the calls of aliasRepository.createIfNotExists that are over
CreateCalls == {p \in Procs : proc[p].pc = "done" /\ proc[p].cine # ""}

\* C5. Race-safe create: every createIfNotExists call on one address ends with
\* created or alreadyExists, never with an error, at most one call of a race
\* returns created, and the table holds at most one row for the address.
C5_RaceSafeCreate ==
    /\ \A p \in CreateCalls : proc[p].cine \in {"created", "alreadyExists"}
    /\ Cardinality(AliasRows(Address)) <= 1

C6_Step ==
    \A p \in Procs :
        (proc[p].pc = "a_urow" /\ proc'[p].pc # "a_urow") =>
            /\ AliasRows(Address) = {} =>
                  /\ proc'[p].pc = "done"
                  /\ proc'[p].res = "alias_not_found"
                  /\ ConfirmActionStatus(proc'[p].res) = 404
            /\ (\E a \in AliasRows(Address) : a.goto # proc[p].pend.email) =>
                  /\ proc'[p].pc = "done"
                  /\ proc'[p].res = "alias_owner_changed"
                  /\ ConfirmActionStatus(proc'[p].res) = 409
                  /\ alias' = alias
                  /\ mutCount' = mutCount

\* C6. An unsubscribe redemption that reads an alias row whose goto differs from
\* the email of its confirmation record answers 409 alias_owner_changed and
\* deletes nothing; one that finds no alias row answers 404 alias_not_found.
C6_OwnerMismatchOnDelete == [][C6_Step]_vars

\* the alias was deleted and created again for another destination between the
\* unsubscribe request and its redemption, which answered alias_owner_changed
C6_Witness ==
    \E p \in Procs :
        /\ proc[p].op = "confirmAction"
        /\ proc[p].pc = "done"
        /\ proc[p].marked
        /\ proc[p].intent = "unsubscribe"
        /\ proc[p].res = "alias_owner_changed"
        /\ \E a \in AliasRows(Address) : a.goto # proc[p].pend.email

ScenarioClock == <<0, 10, 61, 130, 200>>

ScenarioAnswers ==
    <<[action |-> "created", send_count |-> 1],
      [action |-> "cooldown", send_count |-> 1],
      [action |-> "resent", send_count |-> 2],
      [action |-> "resent", send_count |-> 3],
      [action |-> "rate_limited", send_count |-> 3]>>

\* the calls so far were made at the first n times of the scenario
OnScenario(n) == Len(hist) >= n /\ \A i \in 1..n : hist[i].at = ScenarioClock[i]

C7_Scenario ==
    \A n \in 1..Len(ScenarioClock) :
        OnScenario(n) =>
            /\ hist[n].action = ScenarioAnswers[n].action
            /\ hist[n].send_count = ScenarioAnswers[n].send_count

C7_RuleStep ==
    \A p \in Procs :
        (proc[p].pc = "u_select" /\ proc'[p].pc # "u_select") =>
            \A r \in PendingUnexpired(atr, proc[p].email) :
                (IF proc'[p].pc = "u_rotate" THEN "resent" ELSE proc'[p].res)
                  = IF now < r.last_sent_at + cfg.cooldown THEN "cooldown"
                    ELSE IF r.send_count >= cfg.maxSends THEN "rate_limited"
                    ELSE "resent"

\* C7. With cooldown 60 s and maxSendCount 3, sequential calls for a new email at
\* t = 0, 10, 61, 130, 200 answer created (1), cooldown (1), resent (2),
\* resent (3), rate_limited (3); and on an unexpired pending row every call
\* decides cooldown if now < last_sent_at + cooldown, else rate_limited if
\* send_count >= maxSendCount, else resent.
C7_CooldownArithmetic == []C7_Scenario /\ [][C7_RuleStep]_vars

\* the five calls of the scenario were made and answered
C7_Witness ==
    /\ Len(hist) = 5
    /\ OnScenario(5)
    /\ hist[5].action = "rate_limited"
    /\ hist[4].send_count = 3

C8_Step ==
    \A p \in Procs :
        (/\ proc[p].pc = "u_commit"
         /\ proc[p].res \in {"cooldown", "rate_limited"}
         /\ proc'[p].pc = "done")
           => /\ proc[p].pend.id # 0
              /\ proc[p].pend.status = "pending"
              /\ proc[p].pend \in atr
              /\ proc[p].pend \in atr'
              /\ proc[p].pend.expires_at > now =>
                    GetPendingByTokenHash(atr', proc[p].pend.token_hash) = proc[p].pend

\* C8. A call of upsertPendingByEmailTx that returns cooldown or rate_limited
\* commits the pending row exactly as it read it (token_hash, send_count,
\* last_sent_at, expires_at, status), so the secret issued for the row is found
\* by getPendingByTokenHash as long as the row is unexpired.
C8_ThrottledCallKeepsRow == [][C8_Step]_vars

\* a call answered rate_limited; the row still carries the digest of a mailed
\* secret and is unexpired
C8_Witness ==
    \E p \in Procs :
        /\ proc[p].op = "createCredentials"
        /\ proc[p].pc = "done"
        /\ proc[p].res = "rate_limited"
        /\ proc[p].pend \in atr
        /\ proc[p].pend.expires_at > now
        /\ \E m \in mail : m.kind = "cred" /\ Hash(m.secret) = proc[p].pend.token_hash

C9_Bounds == \A r \in atr : 1 <= r.send_count /\ r.send_count <= cfg.maxSends

C9_Step == \A r \in atr : \A x \in atr' : x.id = r.id => x.send_count >= r.send_count

\* C9. Every api_token_requests row has 1 <= send_count <= maxSendCount in every
\* reachable state, and no step lowers the send_count of a row.
C9_SendCountBounded == []C9_Bounds /\ [][C9_Step]_vars

\* a resend has brought a pending row to the maximum send count
C9_Witness ==
    \E p \in Procs :
        /\ proc[p].pc = "done"
        /\ proc[p].res = "resent"
        /\ \E r \in atr : /\ r.id = proc[p].meta.id
                          /\ r.status = "pending"
                          /\ r.send_count = cfg.maxSends
                          /\ r.send_count > 1

\* no step rotates the secret of a row inside the cooldown of the send it
\* replaces: in every serial order of the decisions the later request answers
\* cooldown
C10_Step ==
    \A r \in ec : \A x \in ec' :
        (x.id = r.id /\ x.token_hash # r.token_hash)
            => now >= r.last_sent_at + cfg.cooldown

\* C10. Under concurrent sendEmailConfirmation calls for one destination email
\* there is never more than one pending unexpired email_confirmations row for
\* the email, and the issuance decisions are serialized.
C10_SerializedIssuance ==
    /\ [](\A e \in Emails : Cardinality(PendingUnexpired(ec, e)) <= 1)
    /\ [][C10_Step]_vars

\* no step rotates the secret of a pending unexpired email_confirmations row
\* whose send_count has reached the maximum
C11_Step ==
    \A r \in ec : \A x \in ec' :
        (x.id = r.id /\ ActivePending(r) /\ r.send_count >= cfg.maxSends)
            => (x.token_hash = r.token_hash /\ x.send_count = r.send_count)

\* C11. The send_count of a pending email_confirmations row is bounded by the
\* configured maximum: it never exceeds it, and once it has reached it a further
\* sendEmailConfirmation call for the email rotates nothing until the row
\* expires.
C11_AliasSendCountBounded ==
    /\ [](\A r \in ec : r.send_count <= cfg.maxSends)
    /\ [][C11_Step]_vars

\* the withTxRetry call of the retry specification
TheCall == proc[RetryCaller]

\* every attempt so far raised a transient lock error
AllTransient ==
    /\ Len(TheCall.tries) > 0
    /\ \A i \in 1..Len(TheCall.tries) : isRetryableTxError(TheCall.tries[i])

\* C12. withTxRetry on a unit of work that raises a transient lock error
\* (ER_LOCK_DEADLOCK / 1213, ER_LOCK_WAIT_TIMEOUT / 1205) on every attempt never
\* runs it more than maxRetries + 1 times, and ends after exactly maxRetries + 1
\* attempts by throwing tx_busy with the last lock error as cause, never the
\* lock error itself and never tx_retry_exhausted.
C12_RetryBound ==
    /\ Len(TheCall.tries) <= TheCall.maxRetries + 1
    /\ (TheCall.pc = "done" /\ AllTransient) =>
          /\ Len(TheCall.tries) = TheCall.maxRetries + 1
          /\ TheCall.thrown = TxBusy
          /\ TheCall.cause = TheCall.tries[Len(TheCall.tries)]

\* a call with the default budget gave up after three lock errors
C12_Witness ==
    /\ TheCall.pc = "done"
    /\ AllTransient
    /\ ~TheCall.opts.given
    /\ Len(TheCall.tries) = DEFAULT_RETRY_MAX + 1
    /\ TheCall.thrown.code = "tx_busy"

\* C13. When the unit of work raises an error that is no transient lock error,
\* on whichever attempt, withTxRetry ends at once by throwing that same error:
\* no further attempt, no delay after it, and no conversion to tx_busy.
C13_Step ==
    LET c == proc[RetryCaller]
        d == proc'[RetryCaller]
    IN (/\ Len(d.tries) = Len(c.tries) + 1
        /\ d.tries[Len(d.tries)] # NoError
        /\ ~isRetryableTxError(d.tries[Len(d.tries)]))
          => /\ d.pc = "done"
             /\ d.thrown = d.tries[Len(d.tries)]
             /\ d.thrown # TxBusy
             /\ d.sleeps = c.sleeps
             /\ d.attempt = c.attempt

C13_NonTransientPropagates == [][C13_Step]_vars

\* the second attempt raised ER_DUP_ENTRY after one lock error and one delay;
\* the call threw ER_DUP_ENTRY
C13_Witness ==
    /\ TheCall.pc = "done"
    /\ Len(TheCall.tries) = 2
    /\ isRetryableTxError(TheCall.tries[1])
    /\ TheCall.tries[2].code = "ER_DUP_ENTRY"
    /\ TheCall.thrown.code = "ER_DUP_ENTRY"
    /\ TheCall.sleeps = 1

\* C14. When upsertPendingByEmailTx throws tx_busy (the retry budget is
\* exhausted), POST /api/credentials/create answers 503 temporarily_unavailable,
\* not the 500 internal_error of unexpected failures.
C14_BusyIsUnavailable ==
    \A p \in Procs :
        (/\ proc[p].op = "createCredentials"
         /\ proc[p].pc = "done"
         /\ proc[p].res = "tx_busy")
           => /\ createCredentialsResponse(p).status = 503
              /\ createCredentialsResponse(p).error = "temporarily_unavailable"

\* in this step the guarded mutation of the confirmed redemption p fails: the
\* INSERT of createIfNotExists throws, or deleteByAddress throws and leaves the
\* alias row in place
MutationFails(p) ==
    \/ proc[p].pc = "a_cinsert" /\ proc'[p].cine = "threw"
    \/ /\ proc[p].pc = "a_delete" /\ proc'[p].pc = "done"
       /\ AliasRows(Address) # {} /\ alias' = alias

C15_Step ==
    \A p \in Procs :
        (proc[p].marked /\ MutationFails(p)) =>
            /\ proc'[p].res # "invalid_or_expired"
            /\ proc'[p].res # "internal_error"

\* C15. A guarded mutation that fails after markConfirmedById succeeded is
\* answered with a condition of its own, which is neither invalid_or_expired
\* nor the internal_error of any other unexpected failure.
C15_MutationFailureDistinct == [][C15_Step]_vars

\* a confirmed record of the table keeps its status and its digest
StaysConfirmed(tbl, tblNext) ==
    \A r \in tbl : r.status = "confirmed" =>
        \A x \in tblNext : x.id = r.id =>
            (x.status = "confirmed" /\ x.token_hash = r.token_hash)

C16_Step ==
    /\ StaysConfirmed(ec, ec')
    /\ StaysConfirmed(atr, atr')
    /\ \A p \in Procs :
          (/\ proc[p].pc = "a_get" /\ proc'[p].pc # "a_get"
           /\ \E r \in ec : r.token_hash = Hash(proc[p].tok) /\ r.status = "confirmed")
             => /\ proc'[p].pc = "done"
                /\ proc'[p].res = "invalid_or_expired"
                /\ mutCount' = mutCount

C16_Stored ==
    /\ \A p \in Procs :
          (Redemption(p) /\ proc[p].marked) =>
              \E r \in TableOf(p) : r.id = proc[p].pend.id /\ r.status = "confirmed"
    /\ \A k \in {"cred", "alias"} : \A id \in Ids : mutCount[k][id] <= 1

\* C16. Once markConfirmedById has succeeded the record stays confirmed, also
\* when the guarded mutation then fails or is skipped by an early return
\* (invalid_domain, alias_not_found, alias_owner_changed): every later
\* redemption of the same secret answers invalid_or_expired and the mutation of
\* the record is never invoked again.
C16_ConfirmedStaysConfirmed == []C16_Stored /\ [][C16_Step]_vars

\* the first redemption was confirmed and stopped at invalid_domain; a later
\* redemption of the same code answered invalid_or_expired
C16_Witness ==
    \E p \in Procs : \E q \in Procs \ {p} :
        /\ proc[p].op = "confirmAction" /\ proc[q].op = "confirmAction"
        /\ proc[p].pc = "done" /\ proc[q].pc = "done"
        /\ proc[p].marked
        /\ proc[p].res \in {"invalid_domain", "alias_not_found",
                            "alias_owner_changed", "internal_error"}
        /\ proc[q].tok = proc[p].tok
        /\ proc[q].cid > proc[p].cid
        /\ ~proc[q].marked
        /\ proc[q].pend.id = 0
        /\ proc[q].res = "invalid_or_expired"
        /\ mutCount["alias"][proc[p].pend.id] <= 1

\* the record of the presented secret, as the lookup of the redemption sees it
NeverIssuedCase(p) == \A r \in TableOf(p) : r.token_hash # Hash(proc[p].tok)

ConsumedCase(p) ==
    \E r \in TableOf(p) : r.token_hash = Hash(proc[p].tok) /\ r.status = "confirmed"

ExpiredCase(p) ==
    \E r \in TableOf(p) :
        /\ r.token_hash = Hash(proc[p].tok)
        /\ r.status = "expired" \/ ExpiredPending(r)

MissCase(p) == NeverIssuedCase(p) \/ ConsumedCase(p) \/ ExpiredCase(p)

\* the record the lookup found was consumed or has expired since
LateMissCase(p) ==
    \A r \in TableOf(p) : r.id = proc[p].pend.id =>
        (r.status \in {"confirmed", "expired"} \/ ExpiredPending(r))

\* 400 {ok: false, error: "invalid_or_expired"} and 400 {error: "invalid_or_expired"}
ActionMiss ==
    [status |-> 400, ok |-> "false", error |-> "invalid_or_expired", confirmed |-> "",
     intent |-> "", removed |-> "", created |-> "", reason |-> "", address |-> "",
     goto |-> "", domain |-> ""]

CredMiss ==
    [status |-> 400, ok |-> "", error |-> "invalid_or_expired", action |-> "",
     confirmed |-> "", email |-> "", token |-> NoToken, token_type |-> ""]

C17_Step ==
    \A p \in Procs :
        /\ (proc[p].pc = "a_get" /\ proc'[p].pc # "a_get" /\ MissCase(p)) =>
               (proc'[p].pc = "done" /\ confirmActionResponse(p)' = ActionMiss)
        /\ (proc[p].pc = "c_get" /\ proc'[p].pc # "c_get" /\ MissCase(p)) =>
               (proc'[p].pc = "done" /\ confirmCredentialsResponse(p)' = CredMiss)
        /\ (/\ proc[p].pc \in {"a_mark", "c_mark"} /\ proc'[p].pc # proc[p].pc
            /\ LateMissCase(p)) =>
               /\ proc'[p].pc = "done"
               /\ proc[p].pc = "a_mark" => confirmActionResponse(p)' = ActionMiss
               /\ proc[p].pc = "c_mark" => confirmCredentialsResponse(p)' = CredMiss

\* C17. A redemption of a well-formed secret that was never issued, of one that
\* a successful redemption consumed and of one whose record has expired get the
\* same response, status code and body: the caller cannot tell the three cases
\* apart. The record may also expire or be consumed between the lookup and
\* markConfirmedById; the response is the same again.
C17_MissIndistinguishable == [][C17_Step]_vars

\* one finished redemption of a code that was never issued and one of an issued
\* code whose record has expired, with the same response
C17_Witness ==
    \E p \in Procs : \E q \in Procs \ {p} :
        /\ proc[p].op = "confirmAction" /\ proc[q].op = "confirmAction"
        /\ proc[p].pc = "done" /\ proc[q].pc = "done"
        /\ proc[p].tok = NeverIssued /\ NeverIssuedCase(p)
        /\ Issued(q) /\ ExpiredCase(q) /\ ~proc[q].marked
        /\ confirmActionResponse(p) = ActionMiss
        /\ confirmActionResponse(q) = ActionMiss

\* a redemption found its record at the lookup, the record expired before
\* markConfirmedById, and the response is the one of a miss
C17_WitnessLate ==
    \E q \in Procs :
        /\ proc[q].op = "confirmAction" /\ proc[q].pc = "done"
        /\ proc[q].pend.id # 0 /\ ~proc[q].marked
        /\ confirmActionResponse(q) = ActionMiss

\* the action the existing-row branch of upsertPendingByEmailTx returns for a
\* pending row that has not expired
ExistingRowAction(pending) ==
    IF UpsertDecision(pending) = "rotate" THEN "resent" ELSE UpsertDecision(pending)

C18_Step ==
    \A p \in Procs :
        (/\ proc[p].pc = "u_dup" /\ proc'[p].pc # "u_dup"
         /\ selectPendingForUpdate(p, proc[p].email).id # 0
         /\ selectPendingForUpdate(p, proc[p].email).expires_at > now)
          => /\ proc'[p].pc \in {"u_commit", "u_rotate"}
             /\ proc'[p].w = proc[p].w
             /\ proc'[p].pc = "u_commit" =>
                    proc'[p].res = ExistingRowAction(selectPendingForUpdate(p, proc[p].email))
             /\ proc'[p].pc = "u_rotate" =>
                    ExistingRowAction(selectPendingForUpdate(p, proc[p].email)) = "resent"

\* C18. The call whose INSERT hits ER_DUP_ENTRY because a racing first-time
\* call for the same email inserted first does not fail and inserts no row: it
\* ends with the outcome of the existing-row branch for the winner's row
\* (cooldown, rate_limited or resent by the configured cooldown and
\* maxSendCount, cooldown = 0 included).
C18_DupEntryOutcome == [][C18_Step]_vars

\* the errors upsertPendingByEmailTx ends in
UpsertFailures == {"tx_busy"} \cup {e.code : e \in {u \in UnitErrors : ~isRetryableTxError(u)}}

C19_Step ==
    \A p \in Procs :
        (proc[p].op = "createCredentials" /\ proc'[p] # proc[p]) =>
            \* only the commit of an attempt that returns an action writes the table
            /\ atr' # atr =>
                   /\ proc[p].pc = "u_commit" /\ proc[p].res \in UpsertActions
                   /\ proc'[p].pc \in {"done", "u_mail"} /\ proc'[p].res = proc[p].res
            \* the call ends in an error: the writes of the attempt are dropped
            /\ (proc[p].pc \in TxPcs /\ proc'[p].res \in UpsertFailures) =>
                   /\ atr' = atr
                   /\ proc'[p].pc = "done" /\ proc'[p].w = {} /\ proc'[p].locks = {}
            \* an attempt fails and is retried: the next attempt starts from the
            \* committed table
            /\ (proc[p].pc \in TxPcs /\ proc'[p].attempt # proc[p].attempt) =>
                   /\ atr' = atr
                   /\ proc'[p].pc = "u_sweep" /\ proc'[p].w = {} /\ proc'[p].locks = {}

\* C19. A call of upsertPendingByEmailTx that ends in an error (a non-transient
\* error, or tx_busy after the retries) leaves api_token_requests as it was: the
\* expire sweep, the rotation and the insert of its failed attempts are rolled
\* back, and the table changes only by the commit of an attempt that returns
\* an action.
C19_FailedUpsertLeavesTable == [][C19_Step]_vars

\* the only call made so far inserted a row (an id was drawn) and then ended in
\* an error: the table is empty as it was before the call
C19_Witness ==
    \E p \in Procs :
        /\ calls = 1
        /\ proc[p].op = "createCredentials" /\ proc[p].pc = "done"
        /\ proc[p].res \in UpsertFailures
        /\ nextId.atr > 1
        /\ atr = {}

\* the call swept an expired row, failed, and the row is pending as before
C19_WitnessSweep ==
    \E p \in Procs :
        /\ proc[p].op = "createCredentials" /\ proc[p].pc = "done"
        /\ proc[p].res = "tx_busy"
        /\ \A q \in Procs \ {p} : proc[q].pc \in {"idle", "done"}
        /\ \E r \in atr : r.email = proc[p].email /\ ExpiredPending(r)

\* the finished call of sendApiTokenRequestEmail whose upsert returned
TheSend == proc[SendCaller]

SendFinished ==
    /\ TheSend.op = "sendApiTokenRequestEmail" /\ TheSend.pc = "done"
    /\ TheSend.result # NoResult

Sendable == TheSend.result.action \in {"created", "resent"}

HasTokenPlain == TheSend.result.token_plain # NoToken

MailConfigured ==
    /\ TheSend.conf.smtpFrom # "" /\ TheSend.conf.appPublicUrl # ""
    /\ TheSend.conf.smtpHost # ""

\* a throttled outcome returns {ok: true, sent: false, reason: <action>} and
\* sends nothing; a sendable outcome without token_plain raises
\* missing_token_plain and sends nothing
C20_Throttled ==
    /\ (SendFinished /\ ~Sendable) =>
           /\ TheSend.invoked = 0 /\ TheSend.res = "returned"
           /\ TheSend.ret = [ok |-> TRUE, sent |-> FALSE,
                             reason |-> TheSend.result.action, action |-> ""]
    /\ (SendFinished /\ Sendable /\ ~HasTokenPlain) =>
           /\ TheSend.invoked = 0 /\ TheSend.res = "threw"
           /\ TheSend.thrown = "missing_token_plain"

\* C20 as stated. sendApiTokenRequestEmail invokes the mail transport exactly
\* when the upsert outcome is created or resent with a non-empty token_plain;
\* cooldown and rate_limited return sent: false without raising; created or
\* resent without token_plain raises missing_token_plain and sends nothing.
C20_SendsExactlyWhenSendable ==
    /\ SendFinished => (TheSend.invoked = 1 <=> (Sendable /\ HasTokenPlain))
    /\ C20_Throttled

\* C20, amended. The mail transport is invoked exactly when the outcome is
\* created or resent with a non-empty token_plain and smtpFrom, appPublicUrl
\* and smtpHost are all configured; with one of them empty the call raises
\* missing_SMTP_FROM, missing_APP_PUBLIC_URL or missing_SMTP_HOST and sends
\* nothing. The throttled outcomes and the missing token_plain are as stated.
C20_SendsWhenSendableAndConfigured ==
    /\ SendFinished =>
           (TheSend.invoked = 1 <=> (Sendable /\ HasTokenPlain /\ MailConfigured))
    /\ TheSend.op = "sendApiTokenRequestEmail" => TheSend.invoked <= 1
    /\ (SendFinished /\ Sendable /\ HasTokenPlain /\ ~MailConfigured) =>
           /\ TheSend.res = "threw"
           /\ TheSend.thrown \in {"missing_SMTP_FROM", "missing_APP_PUBLIC_URL",
                                   "missing_SMTP_HOST"}
    /\ C20_Throttled

\* the upsert returned created with a token, SMTP_FROM is empty: nothing is sent
C20_Witness ==
    /\ SendFinished /\ Sendable /\ HasTokenPlain
    /\ TheSend.conf.smtpFrom = ""
    /\ TheSend.invoked = 0 /\ TheSend.thrown = "missing_SMTP_FROM"

\* the upsert returned resent with a token and the mail went out
C20_WitnessSent ==
    /\ SendFinished /\ TheSend.result.action = "resent"
    /\ TheSend.invoked = 1 /\ TheSend.ret.sent /\ mail # {}

\* the positions of createCredentials at which storage is read or written
StoragePcs == {"b_ip", "b_email"} \cup TxPcs

CreateRequest(p) == proc[p].op = "createCredentials"

InvalidParams(p) ==
    ~parseEmailStrict(proc[p].emailRaw).ok \/ parseDays(proc[p].daysRaw) = 0

C21_Refused ==
    \A p \in Procs :
        (CreateRequest(p) /\ InvalidParams(p)) =>
            /\ proc[p].pc = "done"
            /\ proc[p].res = "invalid_params"
            /\ proc[p].field \in {"email", "days"}
            /\ proc[p].w = {} /\ proc[p].locks = {}
            /\ \A r \in atr : r.id # proc[p].pend.id

\* the step that answers invalid_params is the first step of the request and
\* leaves the storage as it is
C21_Step ==
    \A p \in Procs :
        (proc'[p].pc # proc[p].pc /\ proc'[p].res = "invalid_params") =>
            /\ proc[p].pc = "idle"
            /\ atr' = atr /\ nextId' = nextId /\ mail' = mail

\* C21. A createCredentials request whose email or days fails validation is
\* answered 400 invalid_params in its first step, before any await: it makes no
\* ban lookup, starts no transaction, and no row of api_token_requests is
\* created or changed.
C21_InvalidParamsNoStorage == []C21_Refused /\ [][C21_Step]_vars

\* a request with a well-formed email and with days = 91 was refused
C21_Witness ==
    \E p \in Procs :
        /\ CreateRequest(p) /\ proc[p].pc = "done"
        /\ parseEmailStrict(proc[p].emailRaw).ok
        /\ proc[p].daysRaw = [kind |-> "int", n |-> 91]
        /\ proc[p].res = "invalid_params" /\ proc[p].field = "days"

\* a request with valid parameters went through the ban lookups and the upsert
C21_WitnessValid ==
    \E p \in Procs :
        /\ CreateRequest(p) /\ proc[p].pc = "done" /\ proc[p].res = "created"
        /\ proc[p].emailRaw.chars = <<"A", "@", "a", ".", "a", "a">>
        /\ \E r \in atr : r.email = <<"a", "@", "a", ".", "a", "a">>

\* the call of upsertPendingByEmailTx in p has a result
UpsertReturned(p) ==
    /\ proc[p].op = "createCredentials"
    /\ proc[p].pc \in {"u_commit", "u_mail", "done"}
    /\ proc[p].res \in UpsertActions

C22_Meta ==
    \A p \in Procs :
        UpsertReturned(p) =>
            /\ proc[p].meta.remaining_attempts = cfg.maxSends - proc[p].meta.send_count
            /\ proc[p].meta.next_allowed_send_at =
                   proc[p].meta.last_sent_at + cfg.cooldown

\* at the commit the metadata are those of the row as it is committed
C22_Step ==
    \A p \in Procs :
        (UpsertReturned(p) /\ proc[p].pc = "u_commit" /\ proc'[p].pc # "u_commit") =>
            \E r \in atr' :
                /\ r.id = proc[p].meta.id
                /\ r.expires_at = proc[p].meta.expires_at
                /\ r.last_sent_at = proc[p].meta.last_sent_at
                /\ r.send_count = proc[p].meta.send_count

\* C22. Every result of upsertPendingByEmailTx (created, resent, cooldown,
\* rate_limited) carries metadata with remaining_attempts = maxSendCount -
\* send_count and next_allowed_send_at = last_sent_at + cooldownSeconds, and
\* with expires_at, last_sent_at and send_count of the row as committed, for
\* every configuration, cooldownSeconds = 0 included.
C22_PendingMeta == []C22_Meta /\ [][C22_Step]_vars

SecretFormats == {"base62", "digits", "hex64"}

\* the value is the SHA-256 digest of a generated secret, not a secret
IsDigest(h) == h[1] = "sha256" /\ h = Hash(h[2]) /\ h[2][1] \in SecretFormats

\* every row, committed or written inside an open transaction
StoredRows == atr \cup ec \cup apiTokens \cup UNION {proc[p].w : p \in Procs}

C23_OnlyDigests == \A r \in StoredRows : IsDigest(r.token_hash)

MailPcs == {"u_mail", "s_mail"}

\* a secret leaves the program in one mail of the call that generated it, and
\* that call ends with it
C23_Step ==
    /\ mail' # mail =>
          \E p \in Procs :
              /\ proc[p].pc \in MailPcs /\ proc'[p].pc = "done"
              /\ proc[p].tok \notin {m.secret : m \in mail}
              /\ mail' \ mail = {[kind |-> IF proc[p].pc = "u_mail" THEN "cred" ELSE "alias",
                                  secret |-> proc[p].tok]}
    /\ \A p \in Procs :
          (proc[p].pc \in MailPcs /\ proc'[p].pc # proc[p].pc) => mail' # mail

\* C23. The pending-confirmation tables and api_tokens hold only the SHA-256
\* digest of each secret, in committed rows and in the writes of open
\* transactions alike, never the plaintext; the plaintext leaves the program
\* exactly once, in the mail of the call that issued it.
C23_DigestsOnly == []C23_OnlyDigests /\ [][C23_Step]_vars

\* a credential request and an alias confirmation are both stored and mailed:
\* the rows hold the digests of the mailed secrets
C23_Witness ==
    /\ \E r \in atr : \E m \in mail :
          m.kind = "cred" /\ r.token_hash = Hash(m.secret) /\ r.token_hash # m.secret
    /\ \E r \in ec : \E m \in mail :
          m.kind = "alias" /\ r.token_hash = Hash(m.secret) /\ r.token_hash # m.secret

\* the redemption of a subscribe secret found the alias address taken: by the
\* getByAddress pre-check, or by createIfNotExists (alreadyExists)
AddressTaken(p) ==
    /\ proc[p].op = "confirmAction" /\ proc[p].pc = "done"
    /\ proc[p].intent \in {"subscribe", "subscribe_address"}
    /\ proc[p].res \in {"already_exists", "not_created"}

\* C24. A redemption of a subscribe or subscribe_address secret that finds an
\* alias row with the address already present is reported as a conflict, not
\* as a successful confirmation.
C24_ExistingAliasIsConflict ==
    \A p \in Procs :
        AddressTaken(p) =>
            /\ confirmActionResponse(p).status = 409
            /\ confirmActionResponse(p).ok = "false"
            /\ confirmActionResponse(p).confirmed # "true"

ResolveDone(p) == proc[p].op = "resolveConfirmBaseUrl" /\ proc[p].pc = "done"

\* the base URL the claim names for a finished call: the origin of the Origin
\* header if its host is active, else that of the Referer if its host is
\* active, else APP_PUBLIC_URL; the active domains are those the call got from
\* the cache or the repository
ClaimedBaseUrl(p) ==
    LET o == parseHeaderOriginCandidate(proc[p].requestOrigin)
        r == parseHeaderOriginCandidate(proc[p].requestReferer)
        active == IF proc[p].view \in {"cache", "fetched"} THEN proc[p].names ELSE {}
    IN IF o.ok /\ o.domain \in active THEN o.origin
       ELSE IF r.ok /\ r.domain \in active THEN r.origin
       ELSE <<cfg.appPublicUrl>>

NoHeaderParses(p) ==
    /\ ~parseHeaderOriginCandidate(proc[p].requestOrigin).ok
    /\ ~parseHeaderOriginCandidate(proc[p].requestReferer).ok

C25_Returns(p) ==
    /\ proc[p].res = "returned"
    /\ proc[p].ret = ClaimedBaseUrl(p)
    /\ proc[p].view = "failed" => proc[p].ret = <<cfg.appPublicUrl>>
    /\ NoHeaderParses(p) => (proc[p].ret = <<cfg.appPublicUrl>> /\ proc[p].fetches = 0)

\* C25 as stated. resolveConfirmBaseUrl returns the origin of the Origin header
\* when its host is an active domain, otherwise the origin of the Referer
\* header when its host is an active domain, otherwise APP_PUBLIC_URL; it
\* returns APP_PUBLIC_URL when the repository fails, and without calling the
\* repository when no header parses.
C25_BaseUrlResolution == \A p \in Procs : ResolveDone(p) => C25_Returns(p)

\* C25, amended. With APP_PUBLIC_URL configured the call returns as stated;
\* with APP_PUBLIC_URL empty it raises missing_APP_PUBLIC_URL before it looks at
\* the headers, and does not call the repository.
C25_BaseUrlResolutionConfigured ==
    \A p \in Procs :
        ResolveDone(p) =>
            IF cfg.appPublicUrl # ""
            THEN C25_Returns(p)
            ELSE /\ proc[p].res = "threw" /\ proc[p].thrown = "missing_APP_PUBLIC_URL"
                 /\ proc[p].fetches = 0

\* the Origin host is not active, the Referer host is: the Referer's origin,
\* without its path, is returned
C25_Witness ==
    \E p \in Procs :
        /\ ResolveDone(p) /\ proc[p].view = "fetched"
        /\ proc[p].requestOrigin.hostname = "u.example"
        /\ proc[p].requestReferer.hostname = "t.example"
        /\ proc[p].requestReferer.path = "/app"
        /\ proc[p].names = {"t.example"}
        /\ proc[p].ret = <<"https:", "t.example">>

\* APP_PUBLIC_URL is empty and the Origin host would be active
C25_WitnessThrown ==
    \E p \in Procs :
        /\ ResolveDone(p) /\ proc[p].thrown = "missing_APP_PUBLIC_URL"
        /\ parseHeaderOriginCandidate(proc[p].requestOrigin).ok

\* a step in which process p begins a resolveConfirmBaseUrl call
ResolveBegins(p) ==
    /\ proc'[p].cid # proc[p].cid
    /\ proc'[p].op = "resolveConfirmBaseUrl"

\* a call made less than the TTL after the last successful fetch returned is
\* answered without listActiveNames, from the cache when it needs the set
C26_ServedWithinTtl ==
    \A p \in Procs :
        (/\ ResolveBegins(p)
         /\ domainsCache.filled
         /\ now - domainsCache.doneAt < DomainsCacheTtl) =>
            /\ proc'[p].pc = "done"
            /\ proc'[p].fetches = 0
            /\ proc'[p].view \in {"cache", "none"}

\* a call served from the cache is served the cached set, fetched less than
\* the TTL before the call
C26_NeverStale ==
    \A p \in Procs :
        (ResolveBegins(p) /\ proc'[p].view = "cache") =>
            /\ domainsCache.filled
            /\ proc'[p].names = domainsCache.data
            /\ now - domainsCache.doneAt < DomainsCacheTtl
            /\ now - domainsCache.at < DomainsCacheTtl

\* a fetch that fails leaves the cache as it was
C26_FailedFetchKeeps ==
    \A p \in Procs :
        (proc[p].pc = "d_fetch" /\ proc'[p].view = "failed") =>
            domainsCache' = domainsCache

\* C26. After a successful fetch of the active-domain list every
\* resolveConfirmBaseUrl call made less than the TTL (10 seconds) later is served
\* from the cache with no call of listActiveNames; no call is served from
\* cached data as old as the TTL or older; a failed fetch does not replace the
\* cached value.
C26_CacheTtl ==
    [][C26_ServedWithinTtl /\ C26_NeverStale /\ C26_FailedFetchKeeps]_vars

\* the part of C26 that measures the TTL from the clock value the filling call
\* read before its fetch (domainsCache.at)
C26_ServedWithinTtlOfRead ==
    \A p \in Procs :
        (/\ ResolveBegins(p)
         /\ domainsCache.filled
         /\ now - domainsCache.at < DomainsCacheTtl) =>
            /\ proc'[p].pc = "done"
            /\ proc'[p].fetches = 0
            /\ proc'[p].view \in {"cache", "none"}

C26_CacheTtlOfRead ==
    [][C26_ServedWithinTtlOfRead /\ C26_NeverStale /\ C26_FailedFetchKeeps]_vars

C26_PartStale == [][C26_NeverStale]_vars

C26_PartFailed == [][C26_FailedFetchKeeps]_vars

\* the state SpecRace begins in, as SpecCred reaches it
RaceStateReached ==
    /\ now = Cooldown /\ cfg.cooldown = Cooldown
    /\ atr = {RaceRow}
    /\ mail = {[kind |-> "cred", secret |-> <<"base62", 1>>]}
    /\ \A p \in Procs : proc[p].pc = "u_sweep" /\ proc[p].cid = p + 1

RaceDone == \A p \in Procs : proc[p].pc = "done"

Resenders == {p \in Procs : proc[p].res = "resent"}

\* the outcome C27 names: one call resent, every other one cooldown, the row
\* with one send more and the digest of the one new secret, which was mailed
SerializedOutcome ==
    /\ Cardinality(Resenders) = 1
    /\ \A p \in Procs \ Resenders : proc[p].res = "cooldown"
    /\ \E r \in atr :
          /\ r.id = RaceRow.id /\ r.status = "pending"
          /\ r.send_count = RaceRow.send_count + 1
          /\ \A p \in Resenders :
                /\ r.token_hash = Hash(proc[p].tok)
                /\ mail = {[kind |-> "cred", secret |-> <<"base62", 1>>],
                           [kind |-> "cred", secret |-> proc[p].tok]}

NoneGaveUp == \A p \in Procs : proc[p].res # "tx_busy"

\* the clock has reached neither the expiry the row had when the calls began
\* nor the end of the cooldown that the first resend started
InsideWindow ==
    /\ now < RaceRow.expires_at
    /\ \A p \in Resenders : now < proc[p].meta.last_sent_at + cfg.cooldown

C27_RowLockExclusive ==
    \A p, q \in Procs : p # q => proc[p].locks \cap proc[q].locks = {}

C27_WitnessTwice == RaceDone /\ Cardinality(Resenders) = 2

\* one call resent, the other one gave up waiting for the lock
C27_WitnessBusy == RaceDone /\ Cardinality(Resenders) = 1 /\ ~NoneGaveUp

\* the record a redeemer at markConfirmedById is about to mark no longer
\* carries the digest of the secret the redeemer presented
SecretRotatedAway(p, tbl) ==
    \A r \in tbl : r.id = proc[p].pend.id => r.token_hash # Hash(proc[p].tok)

C28_Step ==
    \A p \in Procs :
        /\ (proc[p].pc = "a_mark" /\ proc'[p].pc # "a_mark" /\ SecretRotatedAway(p, ec)) =>
              /\ ec' = ec
              /\ proc'[p].pc = "done"
        /\ (proc[p].pc = "c_mark" /\ proc'[p].pc # "c_mark" /\ SecretRotatedAway(p, atr)) =>
              /\ atr' = atr
              /\ proc'[p].pc = "done"

\* C28. A redemption confirms a pending record only if, when the record is
\* marked confirmed, the digest of the presented secret equals the record's
\* current token_hash: a redemption whose secret was rotated away between its
\* getPendingByTokenHash and its markConfirmedById confirms nothing and goes on
\* to no mutation.
C28_ConfirmsCurrentSecretOnly == [][C28_Step]_vars

\* every secret a generator can have drawn in the run
AllSecrets == {<<f, c>> : f \in SecretFormats, c \in 0..(MaxCallsSeq + NProcs + 2)}

MailedSecrets == {m.secret : m \in mail}

\* a redemption that presents secret to the table now finds a record
Redeemable(tbl, secret) == GetPendingByTokenHash(tbl, Hash(secret)).id # 0

\* in every state at most one secret opens a pending record
C29_OneSecretPerRecord ==
    \A tbl \in {atr, ec} : \A r \in tbl :
        Cardinality({s \in AllSecrets :
                       GetPendingByTokenHash(tbl, Hash(s)) = r}) <= 1

\* a step that resends for a pending record of tbl (committed as tbl2) puts
\* the digest of a secret that was not mailed before in the place of the
\* earlier one, whose secret opens no record any more; and the digest of a
\* record changes in no other step
ResendReplaces(tbl, tbl2) ==
    \A r \in tbl : \A r2 \in tbl2 :
        (r2.id = r.id /\ r.status = "pending") =>
            /\ r2.token_hash # r.token_hash => r2.send_count = r.send_count + 1
            /\ r2.send_count # r.send_count =>
                  /\ r2.send_count = r.send_count + 1
                  /\ r2.token_hash # r.token_hash
                  /\ \A s \in AllSecrets :
                        Hash(s) = r.token_hash => GetPendingByTokenHash(tbl2, Hash(s)).id = 0
                  /\ \E p \in Procs :
                        /\ r2.token_hash = Hash(proc[p].tok)
                        /\ proc[p].tok \notin MailedSecrets

\* a redemption that begins with a secret which opens no record is refused
\* at its lookup
UnredeemableRefused ==
    \A p \in Procs :
        /\ (proc[p].pc = "a_get" /\ proc'[p].pc # "a_get" /\ ~Redeemable(ec, proc[p].tok)) =>
              (proc'[p].pc = "done" /\ proc'[p].res = "invalid_or_expired")
        /\ (proc[p].pc = "c_get" /\ proc'[p].pc # "c_get" /\ ~Redeemable(atr, proc[p].tok)) =>
              (proc'[p].pc = "done" /\ proc'[p].res = "invalid_or_expired")

ResentIn(tbl) ==
    \E r \in tbl : \E s1, s2 \in MailedSecrets :
        /\ r.send_count >= 2 /\ ActivePending(r)
        /\ ~Redeemable(tbl, s1)
        /\ GetPendingByTokenHash(tbl, Hash(s2)) = r

C29_WitnessCred == ResentIn(atr)

\* the record that the secret of request p opens (confirmAction applies the
\* intent and the alias of that record) carries the intent and the alias of
\* the request, which the email shows
SecretCarriesRequest(p) ==
    \A r \in ec :
        (r.token_hash = Hash(proc[p].tok) /\ ActivePending(r)) =>
            /\ r.intent = proc[p].intent
            /\ r.alias_name = Address

C30_Step ==
    \A p \in Procs :
        (proc[p].pc = "s_mail" /\ proc'[p].pc = "done") => SecretCarriesRequest(p)

\* C30. Redeeming a mailed secret applies the intent and the alias address of
\* the request that produced the secret and that the email shows: when
\* sendEmailConfirmation mails a secret, the pending row the secret opens
\* carries the intent and the alias of that request, also when the request
\* rotated a row that an earlier request created.
C30_SecretAppliesItsRequest == [][C30_Step]_vars

\* C31. In every reachable state no two email_confirmations rows that are
\* both pending and unexpired hold the same token_hash, whatever codes
\* generateConfirmationCode draws.
C31_DistinctPendingDigests ==
    \A r1, r2 \in ec :
        (ActivePending(r1) /\ ActivePending(r2) /\ r1.id # r2.id) =>
            r1.token_hash # r2.token_hash

\* request p begins GET /api/credentials/confirm with a secret that
\* sendApiTokenRequestEmail mailed and whose record is pending, unexpired and
\* not resent since
PresentsLiveCredSecret(p) ==
    /\ proc'[p].cid # proc[p].cid
    /\ proc'[p].op = "confirmCredentials"
    /\ [kind |-> "cred", secret |-> proc'[p].tok] \in mail
    /\ Redeemable(atr, proc'[p].tok)

\* C32. Round trip of a credential secret: a secret returned by
\* upsertPendingByEmailTx with action created or resent and presented unchanged
\* to GET /api/credentials/confirm, before its expiry and before a further
\* resend, passes the token-format validation of the endpoint (and goes on to
\* the lookup that confirms the record).
C32_CredSecretRoundTrip ==
    [][\A p \in Procs : PresentsLiveCredSecret(p) => proc'[p].pc = "c_get"]_vars

\* the committed row of the email that is pending and at maxSendCount
LimitedRows == {r \in atr : r.status = "pending" /\ r.send_count >= cfg.maxSends}

\* the call of p that commits in this step began when the rate-limited row had
\* expired: it has marked the row expired and returns created with a fresh
\* secret in a new row with send_count = 1
C33_Step ==
    \A p \in Procs : \A r \in LimitedRows :
        (proc[p].pc = "u_commit" /\ proc'[p].pc # "u_commit" /\ r.expires_at <= hist[1]) =>
            /\ proc[p].res = "created"
            /\ proc[p].meta.send_count = 1
            /\ proc[p].tok \notin MailedSecrets
            /\ \E x \in atr' : x.id = r.id /\ x.status = "expired"
            /\ \E x \in atr' :
                  /\ x.id # r.id /\ x.status = "pending" /\ x.send_count = 1
                  /\ x.token_hash = Hash(proc[p].tok)

\* the client has been mailed a secret issued after the rate limit
NewSecretMailed == \E m \in mail : m \notin LimitedMail

\* C33. The rate_limited state is never permanent: once the expires_at of the
\* row that reached maxSendCount has passed, the next upsertPendingByEmailTx
\* call marks the stale row expired and returns created with a fresh secret
\* and send_count = 1; under continued requests and advancing time the
\* rate-limited subject eventually obtains a new secret.
C33_RateLimitEnds ==
    /\ [][C33_Step]_vars
    /\ (LimitedRows # {}) ~> NewSecretMailed

\* a call made before the expiry was answered rate_limited, a later one created
C33_Witness ==
    /\ NewSecretMailed
    /\ \E r \in atr : r.id = 1 /\ r.status = "expired" /\ r.send_count = cfg.maxSends
    /\ \E r \in atr : r.id = 2 /\ r.status = "pending" /\ r.send_count = 1

C33_WitnessLimited ==
    \E p \in Procs : proc[p].pc = "done" /\ proc[p].res = "rate_limited"

\* the state SpecLive begins in, as SpecCred reaches it (with either cooldown)
LiveStateReached ==
    /\ atr = {LimitedRow(cfg)} /\ mail = LimitedMail /\ now = LastSendAt(cfg)
    /\ calls = MaxSends /\ \A p \in Procs : Free(p)

LiveStateReachedCooldown == LiveStateReached /\ cfg.cooldown > 0

\* the steps of the records of tbl (committed as tbl2): no record disappears, a
\* pending record stays pending or becomes confirmed or expired, and a
\* confirmed or expired record keeps its status, token_hash, send_count and
\* expires_at
StatusMoves(tbl, tbl2) ==
    \A r \in tbl :
        /\ \E r2 \in tbl2 : r2.id = r.id
        /\ \A r2 \in tbl2 :
              r2.id = r.id =>
                 IF r.status = "pending"
                 THEN r2.status \in {"pending", "confirmed", "expired"}
                 ELSE /\ r2.status = r.status
                      /\ r2.token_hash = r.token_hash
                      /\ r2.send_count = r.send_count
                      /\ r2.expires_at = r.expires_at

\* markConfirmedById has answered true at most once per record
ConfirmedOnce ==
    \A k \in {"cred", "alias"} : \A i \in Ids : confirmCount[k][i] <= 1

\* C34. The status of a pending-confirmation record only moves pending ->
\* confirmed or pending -> expired; once a record is confirmed or expired no
\* operation changes its status, token_hash, send_count or expires_at, and a
\* record becomes confirmed at most once.
C34_TerminalStatuses ==
    /\ []ConfirmedOnce
    /\ [][StatusMoves(atr, atr') /\ StatusMoves(ec, ec')]_vars

\* a resend read the pending record, the record was confirmed, and the
\* rotation of the resend then left the confirmed record as it was
C34_Witness ==
    \E p \in Procs : \E r \in ec :
        /\ proc[p].pc = "s_mail" /\ proc[p].pend.id = r.id
        /\ r.status = "confirmed"
        /\ r.token_hash # Hash(proc[p].tok)
        /\ confirmCount["alias"][r.id] = 1

\* a record expired by the sweep, next to the row created after it
C34_WitnessExpired ==
    \E r1, r2 \in atr : r1.status = "expired" /\ r2.id > r1.id /\ r2.email = r1.email

\* the sum of the send_count of the rows of tbl with an id up to n
RECURSIVE SendCountSum(_, _)
SendCountSum(tbl, n) ==
    IF n = 0 THEN 0
    ELSE SendCountSum(tbl, n - 1)
           + (IF \E r \in tbl : r.id = n
              THEN (CHOOSE r \in tbl : r.id = n).send_count ELSE 0)

InTx(pc) == pc \in TxPcs

\* the table changes only in the commit of one attempt, which ends the call's
\* transaction work: one row more or one send more, never both, never two
CommitsOnce ==
    atr' # atr =>
        /\ \E p \in Procs :
              /\ proc[p].pc = "u_commit" /\ ~InTx(proc'[p].pc)
              /\ proc'[p].w = {} /\ proc'[p].locks = {}
              /\ atr' = Replace(atr, proc[p].w)
        /\ Cardinality(atr') <= Cardinality(atr) + 1
        /\ SendCountSum(atr', MaxRows) <= SendCountSum(atr, MaxRows) + 1

\* an attempt that fails is rolled back before the next attempt starts or the
\* error is thrown: the table is as it was and the transaction has no writes
\* and no locks left
FailedAttemptRolledBack ==
    \A p \in Procs :
        (/\ InTx(proc[p].pc)
         /\ \/ proc'[p].attempt = proc[p].attempt + 1
            \/ proc'[p].pc = "done" /\ proc[p].pc # "u_commit") =>
            /\ atr' = atr
            /\ proc'[p].w = {} /\ proc'[p].locks = {}

\* no attempt starts once one has committed: a call that has left the
\* transaction does not enter it again
NoAttemptAfterCommit ==
    \A p \in Procs :
        (InTx(proc'[p].pc) /\ proc'[p].cid = proc[p].cid) => InTx(proc[p].pc)

\* C35. For each call of withTxRetry at most one attempt's transaction is
\* committed: a failed attempt is rolled back before the next one starts and
\* no attempt starts after one has committed, so a retried
\* upsertPendingByEmailTx never inserts two rows or counts two sends.
C35_OneCommitPerCall ==
    [][CommitsOnce /\ FailedAttemptRolledBack /\ NoAttemptAfterCommit]_vars

\* a call whose first attempts failed after their writes and whose last one
\* committed one row with one send
C35_Witness ==
    \E p \in Procs : \E r \in atr :
        /\ proc[p].pc = "done" /\ proc[p].attempt = DEFAULT_RETRY_MAX
        /\ proc[p].res = "created"
        /\ r.token_hash = Hash(proc[p].tok) /\ r.send_count = 1
        /\ Cardinality(atr) = 1
        /\ nextId.atr > 2

\* a record carrying the digest of the secret has been committed to tbl (the
\* digest is stored only by the INSERT and by the rotation, which store it in
\* a pending record with a new expiry)
DigestCommitted(tbl, secret) == \E r \in tbl : r.token_hash = Hash(secret)

C36_Step ==
    \A p \in Procs :
        /\ (proc[p].pc = "s_mail" /\ proc'[p].pc # "s_mail") =>
              DigestCommitted(ec, proc[p].tok)
        /\ (proc[p].pc = "u_mail" /\ proc'[p].pc # "u_mail") =>
              DigestCommitted(atr, proc[p].tok)

\* C36. Whenever sendApiTokenRequestEmail or sendEmailConfirmation hands a
\* secret to the mail transport, a pending unexpired record whose token_hash is
\* the digest of that secret has already been committed, in every
\* interleaving, also when the row read by getActivePendingByEmail is confirmed
\* or expires before rotateTokenForPending runs.
C36_MailedSecretWasStored == [][C36_Step]_vars

\* a resend read the pending record, a redemption confirmed it, the rotation
\* matched no row, and the code about to be mailed is the digest of no record
C36_UnstoredCodeMailed ==
    \E p \in Procs : \E r \in ec :
        /\ proc[p].pc = "s_mail" /\ proc[p].pend.id = r.id
        /\ r.status = "confirmed"
        /\ ~DigestCommitted(ec, proc[p].tok)

----------------------------------------------------------------------------
(* C37: the owner test and the DELETE are separate statements *)

\* the alias rows a step removes
DeletedRows == alias \ alias'

\* the request p is at its deleteByAddress call: the unsubscribe branch of
\* confirmAction or the API deleteAlias
AtDelete(p) == proc[p].pc \in {"a_delete", "d_delete"}

\* C37: under any interleaving with other requests changing the alias table,
\* whenever the unsubscribe branch of confirmAction or the API deleteAlias
\* deletes an alias row, the goto of that row at the moment of the deletion is
\* the owner the request expects (the confirmed email, or the owner_email of
\* the API key)
C37_DeletesOnlyOwnedAlias ==
    [][\A p \in Procs :
          (AtDelete(p) /\ proc'[p].pc # proc[p].pc) =>
              \A a \in DeletedRows : a.goto = proc[p].email]_vars

----------------------------------------------------------------------------
(* lib/redis-client.js: getRedisClient called by concurrent callers         *)

\* the request handlers and the database are idle
DataIdle ==
    /\ now = 0
    /\ cfg = [ttl |-> Ttl, cooldown |-> Cooldown, maxSends |-> MaxSends]
    /\ load = [requests |-> 0, intents |-> {}]
    /\ atr = {} /\ ec = {} /\ alias = {} /\ apiTokens = {}
    /\ domainActive = TRUE
    /\ nextId = [atr |-> 1, ec |-> 1]
    /\ mail = {}
    /\ proc = [p \in Procs |-> Idle]
    /\ calls = 0
    /\ confirmCount = ZeroCount
    /\ mutCount = ZeroCount
    /\ hist = <<>>
    /\ domainsCache = NoCache

Settle(c, r) == caller' = [caller EXCEPT ![c] = r]

\* getRedisClient up to its first await: the connected client is returned, a
\* caller that finds isConnecting waits on the interval timer, and otherwise
\* the caller sets isConnecting, creates the client and calls client.connect();
\* buildRedisConfig throws without REDIS_URL and the catch resets the module
getRedisClient(c) ==
    IF client # 0 /\ isConnected
    THEN /\ Settle(c, [CallerIdle EXCEPT !.pc = "resolved", !.got = client])
         /\ UNCHANGED <<client, isConnecting, isConnected, created, outcome>>
    ELSE IF isConnecting
    THEN /\ Settle(c, [CallerIdle EXCEPT !.pc = "waiting", !.att = client])
         /\ UNCHANGED <<client, isConnecting, isConnected, created, outcome>>
    ELSE IF ~redisUrl
    THEN /\ Settle(c, [CallerIdle EXCEPT !.pc = "rejected", !.err = "REDIS_URL is required"])
         /\ client' = 0 /\ isConnecting' = FALSE /\ isConnected' = FALSE
         /\ UNCHANGED <<created, outcome>>
    ELSE /\ created < MaxClients
         /\ created' = created + 1
         /\ client' = created + 1
         /\ isConnecting' = TRUE
         /\ outcome' = [outcome EXCEPT ![created + 1] = "pending"]
         /\ Settle(c, [CallerIdle EXCEPT !.pc = "connecting", !.att = created + 1])
         /\ UNCHANGED isConnected

\* a caller that is not inside getRedisClient calls it
GetRedisClientCall(c) ==
    /\ caller[c].pc \in {"idle", "resolved", "rejected"}
    /\ getRedisClient(c)
    /\ UNCHANGED <<dataVars, bootVars>>

\* await client.connect() resolves: isConnected = true; isConnecting = false;
\* return client
ConnectResolves(c) ==
    /\ caller[c].pc = "connecting"
    /\ isConnected' = TRUE
    /\ isConnecting' = FALSE
    /\ outcome' = [outcome EXCEPT ![caller[c].att] = "connected"]
    /\ Settle(c, [caller[c] EXCEPT !.pc = "resolved", !.got = client])
    /\ UNCHANGED <<client, created, dataVars, bootVars>>

\* await client.connect() rejects: the catch resets the module and rethrows
ConnectRejects(c) ==
    /\ caller[c].pc = "connecting"
    /\ isConnecting' = FALSE
    /\ isConnected' = FALSE
    /\ client' = 0
    /\ outcome' = [outcome EXCEPT ![caller[c].att] = "failed"]
    /\ Settle(c, [caller[c] EXCEPT !.pc = "rejected", !.err = "connect failed"])
    /\ UNCHANGED <<created, dataVars, bootVars>>

\* client.on("error") and client.on("end"): isConnected = false
ErrorEvent ==
    /\ client # 0 /\ isConnected
    /\ isConnected' = FALSE
    /\ UNCHANGED <<client, isConnecting, created, outcome, caller, dataVars, bootVars>>

\* client.on("ready") of a client that reconnects: isConnected = true
ReadyEvent ==
    /\ client # 0 /\ ~isConnecting /\ ~isConnected
    /\ isConnected' = TRUE
    /\ UNCHANGED <<client, isConnecting, created, outcome, caller, dataVars, bootVars>>

\* one tick of the waiter's setInterval(..., 100)
WaiterPoll(c) ==
    /\ caller[c].pc = "waiting"
    /\ caller[c].polls < PollsToTimeout
    /\ IF isConnected /\ client # 0
       THEN Settle(c, [caller[c] EXCEPT !.pc = "resolved", !.got = client])
       ELSE IF ~isConnecting
       THEN Settle(c, [caller[c] EXCEPT !.pc = "rejected",
                                        !.err = "Redis connection failed"])
       ELSE Settle(c, [caller[c] EXCEPT !.polls = @ + 1])
    /\ UNCHANGED <<client, isConnecting, isConnected, created, outcome,
                   dataVars, bootVars>>

\* the waiter's setTimeout(..., 10000), due with the last tick of the interval
WaiterTimeout(c) ==
    /\ caller[c].pc = "waiting"
    /\ caller[c].polls = PollsToTimeout
    /\ Settle(c, [caller[c] EXCEPT !.pc = "rejected",
                                   !.err = "Redis connection timeout"])
    /\ UNCHANGED <<client, isConnecting, isConnected, created, outcome,
                   dataVars, bootVars>>

InitRedis ==
    /\ DataIdle
    /\ StartupIdle
    /\ redisUrl = TRUE

NextRedis ==
    \/ \E c \in Callers : GetRedisClientCall(c)
    \/ \E c \in Callers : ConnectResolves(c)
    \/ \E c \in Callers : ConnectRejects(c)
    \/ \E c \in Callers : WaiterPoll(c)
    \/ \E c \in Callers : WaiterTimeout(c)
    \/ ErrorEvent
    \/ ReadyEvent

\* the timers of a waiting caller fire
SpecRedis ==
    /\ InitRedis /\ [][NextRedis]_vars
    /\ \A c \in Callers : WF_vars(WaiterPoll(c)) /\ WF_vars(WaiterTimeout(c))

\* the callers whose client.connect() is in progress
Connecting == {c \in Callers : caller[c].pc = "connecting"}

\* at most one caller is between createClient and the end of its connect()
OneAttempt == Cardinality(Connecting) <= 1

\* while an attempt is in progress no step creates a client or starts a connect
NoSecondClient == Connecting # {} => created' = created

\* a waiting caller that settles resolves with the client of the attempt it
\* waited for, the one the initiating caller receives, or rejects after that
\* attempt failed or after the 10 seconds of its timer
WaiterOutcome ==
    \A c \in Callers :
        caller[c].pc = "waiting" =>
            /\ caller'[c].pc = "resolved" =>
                  /\ caller'[c].got = caller[c].att
                  /\ outcome'[caller[c].att] = "connected"
            /\ caller'[c].pc = "rejected" =>
                  \/ outcome[caller[c].att] = "failed"
                  \/ caller[c].polls = PollsToTimeout

WaitersSettle == \A c \in Callers : (caller[c].pc = "waiting") ~> Settled(c)

\* C38: getRedisClient is single-flight: while one connection attempt is in
\* progress no concurrent caller creates a second client or starts a second
\* connect; every waiting caller eventually settles; it resolves with the
\* client the initiating caller receives when the connection succeeds, and it
\* rejects when the connection fails or when 10 seconds have passed
C38_SingleFlight ==
    /\ []OneAttempt
    /\ [][NoSecondClient /\ WaiterOutcome]_vars
    /\ WaitersSettle

\* the parts of C38 about the attempt itself: one attempt at a time, no client
\* created during it, every waiter settles
C38_PartOneAttempt == []OneAttempt /\ [][NoSecondClient]_vars

C38_PartSettles == WaitersSettle

\* a waiter resolved with the client its initiating caller received
C38_WaiterResolved ==
    \E c, d \in Callers :
        /\ caller[c].pc = "resolved" /\ caller[c].polls > 0
        /\ caller[d].pc = "resolved" /\ caller[d].att = caller[c].att
        /\ caller[d].got = caller[c].got /\ caller[c].got # 0 /\ c # d

----------------------------------------------------------------------------
(* server.js, routes/index.js, middlewares/rate-limit.js: the startup and   *)
(* the limiters that count the requests                                     *)

\* createRedisStore: undefined unless redisClient and redisInitialized are set
createRedisStore ==
    IF redisClient = 0 \/ ~redisInitialized THEN "undefined" ELSE "redis"

\* createRateLimiter: createRateLimit({...options, store}); express-rate-limit
\* counts in its own MemoryStore when the store option is undefined
createRateLimiter ==
    IF createRedisStore = "undefined" THEN "memory" ELSE createRedisStore

\* server.js line 7, require("./app"): the app module requires the router,
\* and routes/index.js reads every limiter of every route when it registers
\* the route; rate-limit.js has built the slowDown limiters without a store
RequireApp ==
    /\ phase = "start"
    /\ store' = [i \in Instances |->
                   IF i[2] \in SlowDowns THEN "memory" ELSE createRateLimiter]
    /\ phase' = "loaded"
    /\ UNCHANGED <<redisUrl, redisClient, redisInitialized, counted,
                   dataVars, redisVars>>

\* server.js: await rateLimit.initialize(), up to its await of getRedisClient
InitializeStart ==
    /\ phase = "loaded"
    /\ IF ~redisUrl
       THEN /\ phase' = "initialized"
            /\ UNCHANGED redisVars
       ELSE /\ getRedisClient(BootCaller)
            /\ phase' = "initializing"
    /\ UNCHANGED <<redisUrl, redisClient, redisInitialized, store, counted, dataVars>>

\* initializeRedisStore after getRedisClient has settled
InitializeSettle ==
    /\ phase = "initializing"
    /\ Settled(BootCaller)
    /\ IF caller[BootCaller].pc = "resolved"
       THEN redisClient' = caller[BootCaller].got /\ redisInitialized' = TRUE
       ELSE redisClient' = 0 /\ redisInitialized' = FALSE
    /\ phase' = "initialized"
    /\ UNCHANGED <<redisUrl, store, counted, dataVars, redisVars>>

\* app.listen
Listen ==
    /\ phase = "initialized"
    /\ phase' = "listening"
    /\ UNCHANGED <<redisUrl, redisClient, redisInitialized, store, counted,
                   dataVars, redisVars>>

\* a request passes the limiters mounted on its route: each of them counts
\* the request in the store it was built with
HandleRequest(route) ==
    /\ phase = "listening"
    /\ \A i \in Instances :
          i[1] = route => counted[i].memory + counted[i].redis < MaxHits
    /\ counted' = [i \in Instances |->
                     IF i[1] = route
                     THEN [counted[i] EXCEPT ![store[i]] = @ + 1]
                     ELSE counted[i]]
    /\ UNCHANGED <<redisUrl, redisClient, redisInitialized, store, phase,
                   dataVars, redisVars>>

InitBoot ==
    /\ DataIdle
    /\ StartupIdle
    /\ redisUrl \in BOOLEAN

NextBoot ==
    \/ RequireApp
    \/ InitializeStart
    \/ ConnectResolves(BootCaller)
    \/ ConnectRejects(BootCaller)
    \/ InitializeSettle
    \/ Listen
    \/ \E route \in Routes : HandleRequest(route)
    \/ ErrorEvent
    \/ ReadyEvent

SpecBoot == InitBoot /\ [][NextBoot]_vars

\* rateLimit.initialize() has succeeded: Redis is configured and the client
\* is connected and kept
InitializeSucceeded == redisUrl /\ redisInitialized /\ redisClient # 0

\* C39: when REDIS_URL is configured and rateLimit.initialize() has succeeded
\* before the server listens, every rate limiter that handles a request counts
\* it in the Redis store; the in-memory store counts requests only when Redis
\* is not configured or its initialization failed
C39_RedisStoreAfterInitialize ==
    \A i \in RateLimiters :
        /\ (InitializeSucceeded /\ counted[i] # NoHits) => counted[i].memory = 0
        /\ counted[i].memory > 0 => (~redisUrl \/ ~redisInitialized)

\* the server listens after a successful initialize and has handled a request
C39_HandledAfterInitialize ==
    /\ phase = "listening" /\ InitializeSucceeded
    /\ \E i \in RateLimiters : counted[i] # NoHits

====
